---- MODULE Spec2Model ----
(***************************************************************************)
(* Model of the flexybuy credit service:                                   *)
(*   metric_analyzer/app.py      statement analysis and the per-user       *)
(*                               perStatement collection                   *)
(*   credit_limit_engine/app.py  KYC scoring, fuzzy risk engine, limit     *)
(*                               calculation and the credit-limit table    *)
(*                                                                         *)
(* Numbers.  Python floats are modelled by exact rationals:                *)
(*   money                in cents                                         *)
(*   CONFIDENCE_SCORE     in tenths                                        *)
(*   [0,1] fuzzy values   in hundredths (the universes' 0.01 grid)         *)
(*   [1,5] fuzzy values   in thirtieths (so that 1 + (s/15)*4 is exact)    *)
(*   membership degrees   in 1/120 (the common denominator of the slopes)  *)
(*   a quotient           as a record [num, den] with den > 0              *)
(***************************************************************************)
EXTENDS Integers, Sequences, FiniteSets, TLC

VARIABLES
    lim,      \* one evaluation of steps 4-5 of calculate_initial_limit
    fz,       \* one call of assess_risk
    flt,      \* one call of get_data_without_outliers
    bank,     \* one call of analyze_bank_statement_csv
    table,    \* CREDIT_PROFILE_TABLE: the profile of each user
    credit_limit_table,  \* CREDIT_LIMIT_TABLE: the limit record of each user
    clock,    \* datetime.utcnow()
    analyzer, \* the invocations of metric_analyzer.lambda_handler
    stream,   \* the profile table's stream, not yet delivered
    engine,   \* the invocation of credit_limit_engine.lambda_handler
    saved,    \* the (user, file) pairs whose analysis line 388 reports saved
    inp,      \* one evaluation of steps 1-2 of calculate_initial_limit
    momo,     \* one call of analyze_mtn_momo_csv
    ups,      \* one update of a perStatement list (lines 363-376)
    evaluator, \* the ControlSystemSimulation built at module load
    runs,     \* the calls of calculate_initial_limit that use evaluator
    written   \* the items those calls have put into the limit table

\* The variables of the service, and those of the single-function
\* specifications.
service ==
    <<table, credit_limit_table, clock, analyzer, stream, engine, saved>>

units == <<inp, momo, ups, evaluator, runs, written>>

vars == <<lim, fz, flt, bank, table, credit_limit_table, clock, analyzer,
          stream, engine, saved, units>>

\* The service's variables in a specification that does not use them.
ServiceUnused ==
    /\ table = <<>> /\ credit_limit_table = <<>> /\ clock = 0
    /\ analyzer = <<>> /\ stream = <<>> /\ engine = <<>> /\ saved = {}

\* The value of a variable that a specification does not use.
Unused == [pc |-> "unused"]

UnitsUnused ==
    /\ inp = Unused /\ momo = Unused /\ ups = Unused
    /\ evaluator = Unused /\ runs = Unused /\ written = Unused

(***************************************************************************)
(* Arithmetic helpers                                                      *)
(***************************************************************************)
Abs(x) == IF x < 0 THEN -x ELSE x

Min(a, b) == IF a < b THEN a ELSE b

Max(a, b) == IF a > b THEN a ELSE b

\* Python's int() of the quotient num/den (den > 0): truncation toward zero.
IntOf(num, den) == IF num >= 0 THEN num \div den ELSE -((-num) \div den)

\* floor of the quotient num/den (den > 0).
FloorOf(num, den) == num \div den

\* The sum of a sequence of integers.
RECURSIVE SumSeq(_)
SumSeq(q) == IF q = <<>> THEN 0 ELSE Head(q) + SumSeq(Tail(q))

\* The elements of a sequence that satisfy Keep, in order.
SelectValues(q, kept) == SelectSeq(q, LAMBDA v : v \in kept)

\* The set of elements of a sequence.
Range(q) == {q[i] : i \in DOMAIN q}

(***************************************************************************)
(* metric_analyzer: get_data_without_outliers                              *)
(***************************************************************************)
\* n times the deviation of p from statistics.mean(data_points).
ScaledDeviation(data_points, p) == Len(data_points) * p - SumSeq(data_points)

\* n * n times the sum of the squared deviations from the mean; the sample
\* standard deviation is sqrt(SquaredDeviations / (n * n * (n - 1))).
SquaredDeviations(data_points) ==
    SumSeq([i \in DOMAIN data_points |->
              ScaledDeviation(data_points, data_points[i])
                * ScaledDeviation(data_points, data_points[i])])

\* abs(p - mean) > 3 * stdev, both sides squared and multiplied by
\* n * n * (n - 1).
IsOutlier(data_points, p) ==
    ScaledDeviation(data_points, p) * ScaledDeviation(data_points, p)
        * (Len(data_points) - 1) > 9 * SquaredDeviations(data_points)

\* get_data_without_outliers without the zero-deviation return and with a
\* value at the threshold counted as an outlier.
get_data_without_outliers_at_threshold(data_points) ==
    IF Len(data_points) < 3
    THEN [clean |-> data_points, outliers |-> {}]
    ELSE LET outliers ==
                 {p \in Range(data_points) :
                    ScaledDeviation(data_points, p)
                      * ScaledDeviation(data_points, p)
                      * (Len(data_points) - 1)
                        >= 9 * SquaredDeviations(data_points)}
         IN  [clean |-> SelectValues(data_points,
                                     Range(data_points) \ outliers),
              outliers |-> outliers]

\* get_data_without_outliers: the clean list (the input's order kept) and
\* the set of outlier values.
get_data_without_outliers(data_points) ==
    IF Len(data_points) < 3
    THEN [clean |-> data_points, outliers |-> {}]
    ELSE IF SquaredDeviations(data_points) = 0
    THEN [clean |-> data_points, outliers |-> {}]
    ELSE LET outliers == {p \in Range(data_points) :
                            IsOutlier(data_points, p)}
         IN  [clean |-> SelectValues(data_points,
                                     Range(data_points) \ outliers),
              outliers |-> outliers]

(***************************************************************************)
(* metric_analyzer: analyze_bank_statement_csv                             *)
(*                                                                         *)
(* A date is a day of the year 2025 (1 is 1 January); a date cell that     *)
(* parse_bank_date cannot parse is 0.  Amounts are in cents, as            *)
(* clean_numeric returns them.  A defaultdict is the sequence of its       *)
(* [k, v] items in insertion order.                                        *)
(***************************************************************************)
\* The day before the first day of each month of 2025, and of January 2026.
DaysBefore == <<0, 31, 59, 90, 120, 151, 181, 212, 243, 273, 304, 334, 365>>

\* date_obj.strftime('%Y-%m'): the month of a day of 2025.
month_key(day) ==
    CHOOSE m \in 1..12 : DaysBefore[m] < day /\ day <= DaysBefore[m + 1]

\* The day of the year of a date of 2025.
DayOf(month, dayOfMonth) == DaysBefore[month] + dayOfMonth

DictHas(d, k) == \E i \in DOMAIN d : d[i].k = k

DictIndex(d, k) == CHOOSE i \in DOMAIN d : d[i].k = k

\* d.values(), in insertion order.
DictValues(d) == [i \in DOMAIN d |-> d[i].v]

DictKeys(d) == {d[i].k : i \in DOMAIN d}

\* defaultdict(float): d[k] += amount.
DictAdd(d, k, amount) ==
    IF DictHas(d, k)
    THEN [d EXCEPT ![DictIndex(d, k)].v = @ + amount]
    ELSE Append(d, [k |-> k, v |-> amount])

\* defaultdict(lambda: inf): if balance < d[k]: d[k] = balance.  The read
\* inserts the key, and any balance is below inf.
DictLower(d, k, balance) ==
    IF DictHas(d, k)
    THEN [d EXCEPT ![DictIndex(d, k)].v = Min(@, balance)]
    ELSE Append(d, [k |-> k, v |-> balance])

\* round(num / den, 2) of an amount in cents (den > 0): the nearest cent, a
\* tie going to the even cent.
Round2(num, den) ==
    LET q == num \div den
        r == num - q * den
    IN  IF 2 * r < den THEN q
        ELSE IF 2 * r > den THEN q + 1
        ELSE IF q % 2 = 0 THEN q ELSE q + 1

\* statistics.mean(values) if values else 0.0, rounded to cents.
MeanOrZero(values) ==
    IF values = <<>> THEN 0 ELSE Round2(SumSeq(values), Len(values))

\* The largest element of a non-empty sequence.
MaxOf(values) == CHOOSE v \in Range(values) : \A w \in Range(values) : w <= v

\* statistics.stdev(values) if len(values) > 1 else 0.0, rounded to cents:
\* the r with r - 1/2 <= sqrt(SS / (n * n * (n - 1))) < r + 1/2.
StdevOrZero(values) ==
    IF Len(values) <= 1 THEN 0
    ELSE LET n  == Len(values)
             d  == n * n * (n - 1)
             ss == 4 * SquaredDeviations(values)
         IN  CHOOSE r \in 0..(MaxOf(values) + 1) :
                /\ (r = 0 \/ (2 * r - 1) * (2 * r - 1) * d <= ss)
                /\ ss < (2 * r + 1) * (2 * r + 1) * d

\* The window starting 181 days before the latest date.
six_months_ago_one_day_early(latest_date) == latest_date - 181

\* latest_date - timedelta(days=180) (lines 154 and 252), in days.
six_months_ago(latest_date) == latest_date - 180

\* Steps 1 and 2: the header row is found and its columns mapped, then every
\* data row with a parseable date becomes a transaction and latest_date is
\* the largest date.  Raises when there is no header row, when a column
\* cannot be mapped, or when no date parses.
BankParse ==
    /\ bank.pc = "parse"
    /\ LET parsed == SelectSeq(bank.rows, LAMBDA row : row.date # 0)
       IN  IF bank.header = "not_found"
           THEN bank' = [bank EXCEPT !.pc = "raised",
                                     !.error = "no header row"]
           ELSE IF bank.header = "unmapped"
           THEN bank' = [bank EXCEPT !.pc = "raised",
                                     !.error = "columns not mapped"]
           ELSE IF parsed = <<>>
           THEN bank' = [bank EXCEPT !.pc = "raised",
                                     !.error = "no valid dates"]
           ELSE bank' = [bank EXCEPT
                            !.pc = "aggregate",
                            !.all_transactions = parsed,
                            !.latest_date =
                                MaxOf([i \in DOMAIN parsed |-> parsed[i].date]),
                            !.idx = 1]
    /\ UNCHANGED <<lim, fz, flt, service, units>>

\* Step 3 with two independent tests instead of if / elif: a transaction
\* with a credit and a debit adds to both sums of its month.
BankAggregateBothSides ==
    /\ bank.pc = "aggregate"
    /\ bank.idx <= Len(bank.all_transactions)
    /\ LET trans == bank.all_transactions[bank.idx]
           key == month_key(trans.date)
       IN  IF trans.date < six_months_ago(bank.latest_date)
           THEN bank' = [bank EXCEPT !.idx = @ + 1]
           ELSE bank' = [bank EXCEPT
                    !.idx = @ + 1,
                    !.monthly_lowest_balance =
                        DictLower(@, key, trans.balance),
                    !.monthly_income =
                        IF trans.credit > 0
                        THEN DictAdd(@, key, trans.credit) ELSE @,
                    !.monthly_expenditure =
                        IF trans.debit > 0
                        THEN DictAdd(@, key, trans.debit) ELSE @]
    /\ UNCHANGED <<lim, fz, flt, service, units>>

\* Step 3, one transaction: a transaction before latest_date - 180 days is
\* skipped; otherwise its balance lowers the month's lowest balance, and its
\* credit (if positive) is added to the month's income, else its debit (if
\* positive) to the month's expenditure.
BankAggregate ==
    /\ bank.pc = "aggregate"
    /\ bank.idx <= Len(bank.all_transactions)
    /\ LET trans == bank.all_transactions[bank.idx]
           key == month_key(trans.date)
       IN  IF trans.date < six_months_ago(bank.latest_date)
           THEN bank' = [bank EXCEPT !.idx = @ + 1]
           ELSE bank' = [bank EXCEPT
                    !.idx = @ + 1,
                    !.monthly_lowest_balance =
                        DictLower(@, key, trans.balance),
                    !.monthly_income =
                        IF trans.credit > 0
                        THEN DictAdd(@, key, trans.credit) ELSE @,
                    !.monthly_expenditure =
                        IF trans.credit > 0 THEN @
                        ELSE IF trans.debit > 0
                        THEN DictAdd(@, key, trans.debit) ELSE @]
    /\ UNCHANGED <<lim, fz, flt, service, units>>

\* The metrics computed from the three monthly dicts (lines 176-200).
BankMetrics(monthly_income, monthly_expenditure, monthly_lowest_balance) ==
    LET income_values == DictValues(monthly_income)
        expenditure_values == DictValues(monthly_expenditure)
        income_clean == get_data_without_outliers(income_values).clean
        expenditure == get_data_without_outliers(expenditure_values)
        lowest_balance_values == DictValues(monthly_lowest_balance)
        ni == Max(Len(income_clean), 1)
        ne == Max(Len(expenditure.clean), 1)
    IN  [avgMonthlyIncome |-> MeanOrZero(income_clean),
         avgMonthlyExpenditure |-> MeanOrZero(expenditure.clean),
         disposableIncome |->
             Round2(SumSeq(income_clean) * ne - SumSeq(expenditure.clean) * ni,
                    ni * ne),
         avgLowestMonthlyBalance |-> MeanOrZero(lowest_balance_values),
         balanceVolatility |-> StdevOrZero(lowest_balance_values),
         expenditureOutlierCount |-> Cardinality(expenditure.outliers)]

\* After the last transaction: the outlier filter, the averages and the
\* returned metrics.
BankSummarize ==
    /\ bank.pc = "aggregate"
    /\ bank.idx > Len(bank.all_transactions)
    /\ bank' = [bank EXCEPT
                  !.pc = "done",
                  !.metrics = BankMetrics(bank.monthly_income,
                                          bank.monthly_expenditure,
                                          bank.monthly_lowest_balance)]
    /\ UNCHANGED <<lim, fz, flt, service, units>>

(***************************************************************************)
(* credit_limit_engine: configuration                                      *)
(***************************************************************************)
MINIMUM_CREDIT_LIMIT == 50

MAXIMUM_CREDIT_LIMIT == 1000

\* Values the admin-configurable CONFIDENCE_SCORE takes in the model, in
\* tenths (the default is 0.8).
ConfidenceChoices == {0, 5, 8, 10}

(***************************************************************************)
(* credit_limit_engine: the fuzzy logic system                             *)
(***************************************************************************)
\* fuzz.trimf(universe, [a, b, c]) at x, in 1/120: 1 at the apex b, linear
\* on (a, b) and on (b, c), 0 elsewhere.  interp_membership at a value
\* between two universe points is linear, and every a, b, c is a universe
\* point, so the interpolated degree is the triangle's.
trimf(x, a, b, c) ==
    IF x = b THEN 120
    ELSE IF a < x /\ x < b THEN (120 * (x - a)) \div (b - a)
    ELSE IF b < x /\ x < c THEN (120 * (c - x)) \div (c - b)
    ELSE 0

\* DTI, Volatility, MinBalance, RiskScore: x in hundredths.
DTI_low(x) == trimf(x, 0, 0, 30)

DTI_med(x) == trimf(x, 20, 50, 80)

DTI_high(x) == trimf(x, 60, 100, 100)

Volatility_stable(x) == trimf(x, 0, 0, 40)

Volatility_moderate(x) == trimf(x, 30, 50, 70)

Volatility_volatile(x) == trimf(x, 60, 100, 100)

MinBalance_low(x) == trimf(x, 0, 0, 30)

MinBalance_med(x) == trimf(x, 20, 50, 80)

MinBalance_high(x) == trimf(x, 60, 100, 100)

\* DebtHonesty, Character: x in thirtieths (1.0 is 30, 5.0 is 150).
DebtHonesty_poor(x) == trimf(x, 30, 30, 90)

DebtHonesty_fair(x) == trimf(x, 60, 90, 120)

DebtHonesty_good(x) == trimf(x, 90, 150, 150)

Character_weak(x) == trimf(x, 30, 30, 90)

Character_average(x) == trimf(x, 60, 90, 120)

Character_strong(x) == trimf(x, 90, 150, 150)

RiskScore_low(x) == trimf(x, 0, 0, 40)

RiskScore_medium(x) == trimf(x, 30, 50, 70)

RiskScore_high(x) == trimf(x, 60, 100, 100)

\* The five rules (| is max, & is min) and, per consequent term, the
\* strongest firing of the rules that conclude it (accumulation by max).
rules(dti, vol, mb, dh, ch) ==
    [low    |-> Min(Min(DebtHonesty_good(dh), Character_strong(ch)),
                    DTI_low(dti)),
     medium |-> Max(Min(MinBalance_low(mb),
                        Max(DTI_med(dti), Volatility_moderate(vol))),
                    Min(Min(DebtHonesty_fair(dh), Character_average(ch)),
                        Volatility_stable(vol))),
     high   |-> Max(Max(DTI_high(dti), Volatility_volatile(vol)),
                    Max(DebtHonesty_poor(dh), Character_weak(ch)))]

\* The aggregated output membership at x: each term clipped at its firing
\* strength, the terms joined by max.
Aggregated(cut, x) ==
    Max(Max(Min(cut.low, RiskScore_low(x)), Min(cut.medium, RiskScore_medium(x))),
        Min(cut.high, RiskScore_high(x)))

\* Centroid of the aggregated output mf (a function on the RiskScore
\* universe 0, 0.01, ..., 1): the sums, over the segments [x1, x1 + 1] with
\* end heights y1, y2, of 6 * moment * area = 3 (y1 + y2) x1 + (y1 + 2 y2)
\* and of 2 * area = y1 + y2.
RECURSIVE MomentSegments(_, _, _)
MomentSegments(mf, lo, hi) ==
    IF lo = hi
    THEN 3 * (mf[lo] + mf[lo + 1]) * lo + (mf[lo] + 2 * mf[lo + 1])
    ELSE LET mid == (lo + hi) \div 2
         IN  MomentSegments(mf, lo, mid) + MomentSegments(mf, mid + 1, hi)

MomentSum(mf) == MomentSegments(mf, 0, 99)

RECURSIVE AreaSegments(_, _, _)
AreaSegments(mf, lo, hi) ==
    IF lo = hi
    THEN mf[lo] + mf[lo + 1]
    ELSE LET mid == (lo + hi) \div 2
         IN  AreaSegments(mf, lo, mid) + AreaSegments(mf, mid + 1, hi)

AreaSum(mf) == AreaSegments(mf, 0, 99)

\* evaluator.input[...] = value: the simulation clips a value to the bounds
\* of the variable's universe.
ClipToBounds(x, lo, hi) == Min(Max(x, lo), hi)

\* evaluator.compute() for the firing strengths cut: the centroid of the
\* aggregated output, num / (100 * den); when no rule fires the area is zero
\* and compute() raises ValueError.  (A value bound by a one-element set is
\* evaluated once.)
compute(cut) ==
    CHOOSE r \in
        { IF AreaSum(mf) = 0
          THEN [ok |-> FALSE, num |-> 0, den |-> 1]
          ELSE [ok |-> TRUE, num |-> MomentSum(mf), den |-> 3 * AreaSum(mf)] :
            mf \in {[x \in 0..100 |-> Aggregated(cut, x)]} } : TRUE

\* assess_risk: the five inputs are set, evaluator.compute() runs, and
\* evaluator.output['RiskScore'] is returned.
assess_risk(dti, volatility, min_balance, debt_honesty, character) ==
    CHOOSE r \in
        { compute(cut) :
            cut \in {rules(ClipToBounds(dti, 0, 100),
                           ClipToBounds(volatility, 0, 100),
                           ClipToBounds(min_balance, 0, 100),
                           ClipToBounds(debt_honesty, 30, 150),
                           ClipToBounds(character, 30, 150))} } : TRUE

\* user_risk_score = 1.0 - risk_score_output, in thousandths (the quotient
\* is cut to three decimals).
UserRiskScore(risk) == 1000 - ((10 * risk.num) \div risk.den)

(***************************************************************************)
(* credit_limit_engine: calculate_kyc_scores                               *)
(*                                                                         *)
(* kyc_answers is a function from the questions answered to the answers.   *)
(* Scores are in halves (7.5 is 15).                                       *)
(***************************************************************************)
residence_map ==
    ("More than 10 years" :> 5) @@ ("8 - 10 years" :> 4) @@
    ("4 - 8 years" :> 3) @@ ("2 - 4 years" :> 2) @@ ("Less than 2 years" :> 1)

borrow_history_map ==
    ("Yes, but I paid it off" :> 5) @@ ("No, but I borrowed before" :> 4) @@
    ("No" :> 3) @@ ("Yes, and I still owe money" :> 1)

repayment_ability_map ==
    ("Yes, without delays or challenges" :> 5) @@
    ("It's difficult but I manage to pay" :> 2) @@
    ("Sometimes I wasn't able to pay back" :> 0) @@ ("Not applicable" :> 3)

income_map ==
    ("Above 1800 GHS" :> 5) @@ ("1401 GHS - 1800 GHS" :> 4) @@
    ("1001 GHS - 1400 GHS" :> 3) @@ ("701 GHS - 1000 GHS" :> 2) @@
    ("351 GHS - 700 GHS" :> 1) @@ ("Below 350 GHS" :> 0)

job_duration_map ==
    ("More than 10 years" :> 5) @@ ("8 - 10 years" :> 4) @@
    ("4 - 8 years" :> 3) @@ ("2 - 4 years" :> 2) @@ ("Less than 2 years" :> 1)

borrow_source_map ==
    ("Banks" :> 5) @@ ("Other Financial apps (digital)" :> 5) @@
    ("Mobile Money providers (MTN, Telecel, AT)" :> 4) @@
    ("Money lenders (physical / shop)" :> 2) @@ ("Friends or family" :> 2) @@
    ("No applicable" :> 3)

\* map.get(kyc_answers.get(question), 0): no points for an answer that is
\* missing or not in the map.
PointsOrZero(map, kyc_answers, question, default) ==
    IF question \in DOMAIN kyc_answers
       /\ kyc_answers[question] \in DOMAIN map
    THEN map[kyc_answers[question]]
    ELSE 0

\* map.get(kyc_answers.get(question), default)
Points(map, kyc_answers, question, default) ==
    IF question \in DOMAIN kyc_answers
       /\ kyc_answers[question] \in DOMAIN map
    THEN map[kyc_answers[question]]
    ELSE default

\* calculate_kyc_scores without lines 95-96: empty answers are scored by the
\* defaults of the six lookups.
calculate_kyc_scores_by_lookup(kyc_answers) ==
    [character_score |->
         2 * (Points(residence_map, kyc_answers, "residenceDuration", 1)
              + Points(borrow_history_map, kyc_answers, "borrowingHistory", 3)
              + Points(repayment_ability_map, kyc_answers,
                       "repaymentAbility", 3)),
     capacity_score |->
         2 * (Points(income_map, kyc_answers, "monthlyIncomeRange", 0)
              + Points(job_duration_map, kyc_answers, "jobDuration", 1)
              + Points(borrow_source_map, kyc_answers, "borrowingSource", 3))]

\* Lines 93-118.
calculate_kyc_scores(kyc_answers) ==
    IF DOMAIN kyc_answers = {}
    THEN [character_score |-> 15, capacity_score |-> 20]
    ELSE [character_score |->
              2 * (Points(residence_map, kyc_answers, "residenceDuration", 1)
                   + Points(borrow_history_map, kyc_answers,
                            "borrowingHistory", 3)
                   + Points(repayment_ability_map, kyc_answers,
                            "repaymentAbility", 3)),
          capacity_score |->
              2 * (Points(income_map, kyc_answers, "monthlyIncomeRange", 0)
                   + Points(job_duration_map, kyc_answers, "jobDuration", 1)
                   + Points(borrow_source_map, kyc_answers,
                            "borrowingSource", 3))]

(***************************************************************************)
(* credit_limit_engine: steps 4 and 5 of calculate_initial_limit           *)
(***************************************************************************)
\* One unit of money in the units of initial_limit: cents (1/100) times
\* tenths of CONFIDENCE_SCORE (1/10) times thousandths of the score (1/1000).
LimitUnit == 100 * 10 * 1000

\* initial_limit computed from the fuzzy output instead of its inversion.
InitialLimitNotInverted(cents, conf, urs) == cents * conf * (1000 - urs)

\* initial_limit = disposable_income * CONFIDENCE_SCORE * user_risk_score,
\* in 1/LimitUnit, with disposable_income = cents/100, CONFIDENCE_SCORE =
\* conf/10 and user_risk_score = urs/1000.
InitialLimit(cents, conf, urs) == cents * conf * urs

\* FinalLimit without the minimum rule.
FinalLimitNoMinimum(il) ==
    IF il > MAXIMUM_CREDIT_LIMIT * LimitUnit THEN MAXIMUM_CREDIT_LIMIT
    ELSE IntOf(il, LimitUnit)

\* FinalLimit whose maximum rule assigns the wrong bound.
FinalLimitWrongBound(il) ==
    IF il < MINIMUM_CREDIT_LIMIT * LimitUnit THEN MINIMUM_CREDIT_LIMIT
    ELSE IF il > MAXIMUM_CREDIT_LIMIT * LimitUnit THEN MINIMUM_CREDIT_LIMIT
    ELSE IntOf(il, LimitUnit)

\* The business rules applied to initial_limit (in 1/LimitUnit); the result
\* is in whole units.
FinalLimit(il) ==
    IF il < MINIMUM_CREDIT_LIMIT * LimitUnit THEN MINIMUM_CREDIT_LIMIT
    ELSE IF il > MAXIMUM_CREDIT_LIMIT * LimitUnit THEN MAXIMUM_CREDIT_LIMIT
    ELSE IntOf(il, LimitUnit)

(***************************************************************************)
(* credit_limit_engine: calculate_initial_limit                            *)
(*                                                                         *)
(* A profile is [userId, kycAnswers, perStatement]; userId "" is a profile *)
(* without userId.  A StatementRecord is [id, analysisDate, metrics] with  *)
(* the metrics in cents.                                                   *)
(***************************************************************************)
\* The default CONFIDENCE_SCORE, 0.8, in tenths.
CONFIDENCE_SCORE == 8

MODEL_VERSION == "v1.0.0"

\* per_statement_list[-1]: the record at the end of the list, whatever its
\* analysisDate.
LatestStatementLastOfList(per_statement_list) ==
    per_statement_list[Len(per_statement_list)]

\* sorted(per_statement_list, key=analysisDate, reverse=True)[0]: the record
\* with the greatest analysisDate, the first of them in list order.
LatestStatement(per_statement_list) ==
    per_statement_list[
        CHOOSE i \in DOMAIN per_statement_list :
            \A j \in DOMAIN per_statement_list :
                \/ per_statement_list[j].analysisDate
                     < per_statement_list[i].analysisDate
                \/ /\ per_statement_list[j].analysisDate
                        = per_statement_list[i].analysisDate
                   /\ i <= j]

\* a / avg_income in hundredths, without the clamp.
RatioNotClamped(a, avg_income) ==
    IF avg_income > 0 THEN (100 * a) \div avg_income
    ELSE (100 * (0 - a)) \div (0 - avg_income)

\* min(1.0, max(0.0, a / avg_income)) in hundredths (the quotient is cut to
\* two decimals), for avg_income other than 0.
Ratio(a, avg_income) ==
    IF avg_income > 0 THEN Min(100, Max(0, (100 * a) \div avg_income))
    ELSE Min(100, Max(0, (100 * (0 - a)) \div (0 - avg_income)))

\* Step 2 with the ratios of a statement without income set to 0 instead of
\* the defaults of line 156.
FuzzyInputsZeroRatios(kyc_answers, latest_statement) ==
    LET kyc_scores == calculate_kyc_scores(kyc_answers)
        avg_income == latest_statement.avgMonthlyIncome
    IN  [debt_honesty |-> 30 + 4 * kyc_scores.capacity_score,
         character |-> 30 + 4 * kyc_scores.character_score,
         dti |-> IF avg_income = 0 THEN 0
                 ELSE Ratio(latest_statement.avgMonthlyExpenditure, avg_income),
         volatility |-> IF avg_income = 0 THEN 0
                        ELSE Ratio(latest_statement.balanceVolatility,
                                   avg_income),
         min_balance |-> IF avg_income = 0 THEN 0
                         ELSE Ratio(latest_statement.avgLowestMonthlyBalance,
                                    avg_income)]

\* Step 2: the five inputs of assess_risk.
FuzzyInputs(kyc_answers, latest_statement) ==
    LET kyc_scores == calculate_kyc_scores(kyc_answers)
        avg_income == latest_statement.avgMonthlyIncome
    IN  [debt_honesty |-> 30 + 4 * kyc_scores.capacity_score,
         character |-> 30 + 4 * kyc_scores.character_score,
         dti |-> IF avg_income = 0 THEN 100
                 ELSE Ratio(latest_statement.avgMonthlyExpenditure, avg_income),
         volatility |-> IF avg_income = 0 THEN 100
                        ELSE Ratio(latest_statement.balanceVolatility,
                                   avg_income),
         min_balance |-> IF avg_income = 0 THEN 0
                         ELSE Ratio(latest_statement.avgLowestMonthlyBalance,
                                    avg_income)]

\* Steps 3 to 5 for the latest statement: the credit limit, or the error of
\* evaluator.compute().
Scored(kyc_answers, latest_statement) ==
    CHOOSE r \in
        { IF risk.ok
          THEN [status |-> "success",
                creditLimit |->
                    FinalLimit(InitialLimit(latest_statement.disposableIncome,
                                            CONFIDENCE_SCORE,
                                            UserRiskScore(risk)))]
          ELSE [status |-> "raised", creditLimit |-> 0] :
            risk \in {LET in == FuzzyInputs(kyc_answers, latest_statement)
                      IN  assess_risk(in.dti, in.volatility, in.min_balance,
                                      in.debt_honesty, in.character)} } : TRUE

\* The metrics an analysed statement may have (cents): a moderate statement
\* for which a rule fires, and one for which none does, with neutral and
\* with high KYC scores.
MetricChoices ==
    {[avgMonthlyIncome |-> 100000, avgMonthlyExpenditure |-> 20000,
      disposableIncome |-> 80000, avgLowestMonthlyBalance |-> 50000,
      balanceVolatility |-> 10000],
     [avgMonthlyIncome |-> 200000, avgMonthlyExpenditure |-> 80000,
      disposableIncome |-> 120000, avgLowestMonthlyBalance |-> 80000,
      balanceVolatility |-> 80000]}

\* The kycAnswers a profile may hold: none, and the highest-scoring ones.
KycChoices ==
    {<<>>,
     ("residenceDuration" :> "More than 10 years") @@
     ("borrowingHistory" :> "Yes, but I paid it off") @@
     ("repaymentAbility" :> "Yes, without delays or challenges") @@
     ("monthlyIncomeRange" :> "Above 1800 GHS") @@
     ("jobDuration" :> "More than 10 years") @@
     ("borrowingSource" :> "Banks")}

\* Scored for the statements and answers above, evaluated once.
ScoredChoices ==
    [kyc_answers \in KycChoices |->
        [latest_statement \in MetricChoices |->
            Scored(kyc_answers, latest_statement)]]

\* Steps 2 to 5 for the latest statement of a profile.
ScoredLatest(kyc_answers, latest_statement) ==
    IF kyc_answers \in KycChoices /\ latest_statement \in MetricChoices
    THEN ScoredChoices[kyc_answers][latest_statement]
    ELSE Scored(kyc_answers, latest_statement)

\* calculate_initial_limit giving the minimum limit to a profile without
\* statement analysis instead of raising.
calculate_initial_limit_defaulting(profile) ==
    IF profile.userId = "" THEN [status |-> "raised", creditLimit |-> 0]
    ELSE IF profile.perStatement = <<>>
    THEN [status |-> "success", creditLimit |-> MINIMUM_CREDIT_LIMIT]
    ELSE ScoredLatest(profile.kycAnswers,
                      LatestStatement(profile.perStatement).metrics)

\* calculate_initial_limit up to the item it saves: raises ValueError
\* without userId and without statement analysis, and whatever the scoring
\* raises.
calculate_initial_limit(profile) ==
    IF profile.userId = "" THEN [status |-> "raised", creditLimit |-> 0]
    ELSE IF profile.perStatement = <<>>
    THEN [status |-> "raised", creditLimit |-> 0]
    ELSE ScoredLatest(profile.kycAnswers,
                      LatestStatement(profile.perStatement).metrics)

(***************************************************************************)
(* The service: metric_analyzer.lambda_handler over S3 records and         *)
(* credit_limit_engine.lambda_handler over the profile table's stream.     *)
(***************************************************************************)
Users == {"u1", "u2"}

FileNames == {"a.csv", "b.csv"}

\* Invocations of metric_analyzer.lambda_handler that run one after the
\* other, and invocations that run at once.
Serial == {"w1"}

Workers == {"w1", "w2"}

\* Most records of one event.
MaxBatch == 2

\* Most statement analyses that succeed (each reads the clock).
MaxClock == 2

\* Most stream records from other writers awaiting delivery.
MaxForeign == 1

\* What an S3 record leads to: a key with fewer than 3 parts, or a statement
\* type, a user, a file name and the object's content.  The content is what
\* the analysis makes of it: its metrics, or the error it raises.
NoRecordMetrics ==
    [avgMonthlyIncome |-> 0, avgMonthlyExpenditure |-> 0,
     disposableIncome |-> 0, avgLowestMonthlyBalance |-> 0,
     balanceVolatility |-> 0]

S3Records ==
    {[key |-> "short", statement_type |-> "", user_id |-> "", file_name |-> "",
      content |-> "", metrics |-> NoRecordMetrics]}
    \cup
    [key : {"ok"}, statement_type : {"bank"},
     user_id : Users, file_name : FileNames,
     content : {"no_header", "unmapped", "no_dates"},
     metrics : {NoRecordMetrics}]
    \cup
    [key : {"ok"}, statement_type : {"momo-mtn-statement"},
     user_id : Users, file_name : FileNames,
     content : {"no_header", "no_phone", "no_dates"},
     metrics : {NoRecordMetrics}]
    \cup
    [key : {"ok"}, statement_type : {"bank", "momo-mtn-statement", "other"},
     user_id : Users, file_name : FileNames, content : {"valid"},
     metrics : MetricChoices]

\* Lines 322-344: the error the record raises, "" when it raises none.
AnalysisError(record) ==
    IF record.key = "short" THEN "Invalid S3 key format"
    ELSE IF record.statement_type = "momo-mtn-statement"
    THEN IF record.content = "no_header"
         THEN "Could not find a valid MTN MoMo data header row in the CSV."
         ELSE IF record.content = "no_phone"
         THEN "Could not dynamically identify user's phone number."
         ELSE IF record.content = "no_dates"
         THEN "Could not find any valid transaction dates in the statement."
         ELSE ""
    ELSE IF record.statement_type = "bank"
    THEN IF record.content = "no_header"
         THEN "Could not find a valid bank statement data header row in the CSV."
         ELSE IF record.content = "unmapped"
         THEN "Could not map all required columns from the detected header."
         ELSE IF record.content = "no_dates"
         THEN "Could not parse any valid dates from the bank statement CSV."
         ELSE ""
    ELSE "No analyzer for type"

\* The except clause of the record loop with the loop inside the try: an
\* error ends the batch.
NextAfterErrorLeavingLoop(idx, size) == size + 1

\* The except clause of the record loop (metric_analyzer lines 390-391,
\* credit_limit_engine lines 227-229): the loop goes on with the next
\* record.
NextAfterError(idx, size) == idx + 1

\* Lines 363-376 with the append taken whether or not the id is found.
UpdateOrAppendAlways(per_statement_list, new_metric_item) ==
    Append(per_statement_list, new_metric_item)

\* Lines 363-376 with the item of the same id removed and the new item
\* appended at the end.
UpdateOrAppendAtEnd(per_statement_list, new_metric_item) ==
    Append(SelectSeq(per_statement_list,
                     LAMBDA item : item.id # new_metric_item.id),
           new_metric_item)

\* Lines 363-376: the item replaces the first item of the same id, or is
\* appended.
UpdateOrAppend(per_statement_list, new_metric_item) ==
    IF \E i \in DOMAIN per_statement_list :
          per_statement_list[i].id = new_metric_item.id
    THEN LET found_index ==
                 CHOOSE i \in DOMAIN per_statement_list :
                     /\ per_statement_list[i].id = new_metric_item.id
                     /\ \A j \in 1..(i - 1) :
                           per_statement_list[j].id # new_metric_item.id
         IN  [per_statement_list EXCEPT ![found_index] = new_metric_item]
    ELSE Append(per_statement_list, new_metric_item)

NoItem == [id |-> "", analysisDate |-> 0, metrics |-> NoRecordMetrics]

\* An invocation's locals: the loop's position, what the loop has printed
\* for each record so far ("saved" or "raised"), and the locals of the
\* record being processed.
IdleWorker ==
    [pc |-> "idle", size |-> 0, idx |-> 0, log |-> <<>>, user_id |-> "",
     new_metric_item |-> NoItem, per_statement_list |-> <<>>]

IdleEngine == [pc |-> "idle", batch |-> <<>>, idx |-> 0, log |-> <<>>]

NoLimit == [creditLimit |-> 0, scoreLastCalculatedAt |-> 0, modelVersion |-> ""]

\* The KYC answers of a user's profile: u1 has given none, u2 the highest
\* scoring ones.
KycOf(u) ==
    IF u = "u1" THEN <<>> ELSE CHOOSE kyc \in KycChoices : kyc # <<>>

\* Every user has a profile without statement analysis and no credit limit;
\* one invocation of the analyzer at a time.
Init ==
    /\ table = [u \in Users |->
                   [kycAnswers |-> KycOf(u), perStatement |-> <<>>]]
    /\ credit_limit_table = [u \in Users |-> NoLimit]
    /\ clock = 1
    /\ analyzer = [w \in Serial |-> IdleWorker]
    /\ stream = <<>>
    /\ engine = IdleEngine
    /\ saved = {}
    /\ lim = Unused /\ fz = Unused /\ flt = Unused /\ bank = Unused
    /\ UnitsUnused

\* The same with two invocations of the analyzer at once.
ConcurrentInit ==
    /\ table = [u \in Users |->
                   [kycAnswers |-> KycOf(u), perStatement |-> <<>>]]
    /\ credit_limit_table = [u \in Users |-> NoLimit]
    /\ clock = 1
    /\ analyzer = [w \in Workers |-> IdleWorker]
    /\ stream = <<>>
    /\ engine = IdleEngine
    /\ saved = {}
    /\ lim = Unused /\ fz = Unused /\ flt = Unused /\ bank = Unused
    /\ UnitsUnused

single == <<lim, fz, flt, bank, units>>

\* S3 invokes the handler with an event of size records.
Invoke(w) ==
    /\ analyzer[w].pc \in {"idle", "returned"}
    /\ \E size \in 1..MaxBatch :
          analyzer' = [analyzer EXCEPT
                          ![w] = [IdleWorker EXCEPT !.pc = "record",
                                                    !.size = size, !.idx = 1]]
    /\ UNCHANGED <<table, credit_limit_table, clock, stream, engine, saved,
                   single>>

\* Lines 321-344 and 390-391 for a record that raises: the error is printed
\* and the loop goes on.
AnalyzeRaises(w) ==
    /\ analyzer[w].pc = "record"
    /\ analyzer[w].idx <= analyzer[w].size
    /\ \E record \in S3Records : AnalysisError(record) # ""
    /\ analyzer' = [analyzer EXCEPT
          ![w].log = Append(@, "raised"),
          ![w].idx = NextAfterError(@, analyzer[w].size)]
    /\ UNCHANGED <<table, credit_limit_table, clock, stream, engine, saved,
                   single>>

\* Lines 321-354 for a record whose analysis returns metrics: the new item.
AnalyzeReturns(w) ==
    /\ analyzer[w].pc = "record"
    /\ analyzer[w].idx <= analyzer[w].size
    /\ clock <= MaxClock
    /\ \E user_id \in Users, file_name \in FileNames,
          metrics_data \in MetricChoices :
          /\ \E record \in S3Records :
                /\ AnalysisError(record) = ""
                /\ record.user_id = user_id
                /\ record.file_name = file_name
                /\ record.metrics = metrics_data
          /\ analyzer' = [analyzer EXCEPT
                ![w].pc = "get_item",
                ![w].user_id = user_id,
                ![w].new_metric_item =
                    [id |-> file_name, analysisDate |-> clock,
                     metrics |-> metrics_data]]
    /\ clock' = clock + 1
    /\ UNCHANGED <<table, credit_limit_table, stream, engine, saved, single>>

\* Lines 358-361: table.get_item.
GetItem(w) ==
    /\ analyzer[w].pc = "get_item"
    /\ analyzer' = [analyzer EXCEPT
          ![w].pc = "update_item",
          ![w].per_statement_list = table[analyzer[w].user_id].perStatement]
    /\ UNCHANGED <<table, credit_limit_table, clock, stream, engine, saved,
                   single>>

\* Lines 363-388: the list is updated in memory and table.update_item sets
\* statementMetrics to it; the stream gets the profile's new image.
UpdateItem(w) ==
    /\ analyzer[w].pc = "update_item"
    /\ LET user_id == analyzer[w].user_id
           new_list == UpdateOrAppend(analyzer[w].per_statement_list,
                                      analyzer[w].new_metric_item)
       IN  /\ table' = [table EXCEPT ![user_id].perStatement = new_list]
           /\ stream' = Append(stream,
                  [eventName |-> "MODIFY",
                   NewImage |-> <<[userId |-> user_id,
                                   kycAnswers |-> table[user_id].kycAnswers,
                                   perStatement |-> new_list]>>])
           /\ saved' = saved \cup
                  {[user_id |-> user_id,
                    id |-> analyzer[w].new_metric_item.id]}
           /\ analyzer' = [analyzer EXCEPT
                 ![w].pc = "record",
                 ![w].idx = @ + 1,
                 ![w].log = Append(@, "saved"),
                 ![w].user_id = "",
                 ![w].new_metric_item = NoItem,
                 ![w].per_statement_list = <<>>]
    /\ UNCHANGED <<credit_limit_table, clock, engine, single>>

\* Lines 393-396: the batch is finished.
Return(w) ==
    /\ analyzer[w].pc = "record"
    /\ analyzer[w].idx > analyzer[w].size
    /\ analyzer' = [analyzer EXCEPT ![w].pc = "returned"]
    /\ UNCHANGED <<table, credit_limit_table, clock, stream, engine, saved,
                   single>>

\* Stream records the analyzer does not cause: a removal, a record without
\* NewImage, an image without userId, and a profile that has no statement
\* analysis yet.
OtherRecords ==
    {[eventName |-> "REMOVE", NewImage |-> <<>>],
     [eventName |-> "MODIFY", NewImage |-> <<>>],
     [eventName |-> "INSERT",
      NewImage |-> <<[userId |-> "", kycAnswers |-> <<>>,
                      perStatement |-> <<>>]>>]}
    \cup
    {[eventName |-> "INSERT",
      NewImage |-> <<[userId |-> u, kycAnswers |-> table[u].kycAnswers,
                      perStatement |-> <<>>]>>] : u \in Users}

\* The profile table's stream gets a record of another writer.
OtherWrite ==
    /\ Len(stream) < MaxForeign
    /\ \E record \in OtherRecords : stream' = Append(stream, record)
    /\ UNCHANGED <<table, credit_limit_table, clock, analyzer, engine, saved,
                   single>>

\* credit_limit_engine.lambda_handler is invoked with the next stream
\* records, in order.
EngineInvoke ==
    /\ engine.pc = "idle"
    /\ stream # <<>>
    /\ \E size \in 1..Min(MaxBatch, Len(stream)) :
          /\ engine' = [pc |-> "record", batch |-> SubSeq(stream, 1, size),
                        idx |-> 1, log |-> <<>>]
          /\ stream' = SubSeq(stream, size + 1, Len(stream))
    /\ UNCHANGED <<table, credit_limit_table, clock, analyzer, saved, single>>

\* Lines 207-215: the record is skipped.
Skipped(record) ==
    \/ record.eventName \notin {"INSERT", "MODIFY"}
    \/ record.NewImage = <<>>

EngineSkips ==
    /\ engine.pc = "record"
    /\ engine.idx <= Len(engine.batch)
    /\ Skipped(engine.batch[engine.idx])
    /\ engine' = [engine EXCEPT !.idx = @ + 1, !.log = Append(@, "skipped")]
    /\ UNCHANGED <<table, credit_limit_table, clock, analyzer, stream, saved,
                   single>>

\* Lines 222 and 227-229: calculate_initial_limit raises, the error is
\* printed and the loop goes on.
EngineRaises ==
    /\ engine.pc = "record"
    /\ engine.idx <= Len(engine.batch)
    /\ ~Skipped(engine.batch[engine.idx])
    /\ calculate_initial_limit(engine.batch[engine.idx].NewImage[1]).status
           = "raised"
    /\ engine' = [engine EXCEPT
                     !.idx = NextAfterError(@, Len(engine.batch)),
                     !.log = Append(@, "raised")]
    /\ UNCHANGED <<table, credit_limit_table, clock, analyzer, stream, saved,
                   single>>

\* put_item that keeps an item already stored under the key.
put_item_if_absent(items, user_id, item) ==
    IF items[user_id].modelVersion = "" THEN [items EXCEPT ![user_id] = item]
    ELSE items

\* credit_limit_table.put_item(Item=item_to_save), line 190: the item
\* replaces whatever the table holds under its key userId.
put_item(items, user_id, item) == [items EXCEPT ![user_id] = item]

\* Lines 222 and 183-192: calculate_initial_limit puts the user's item.
EngineSaves ==
    /\ engine.pc = "record"
    /\ engine.idx <= Len(engine.batch)
    /\ ~Skipped(engine.batch[engine.idx])
    /\ LET profile == engine.batch[engine.idx].NewImage[1]
           result == calculate_initial_limit(profile)
       IN  /\ result.status = "success"
           /\ credit_limit_table' =
                  put_item(credit_limit_table, profile.userId,
                           [creditLimit |-> result.creditLimit,
                            scoreLastCalculatedAt |-> clock,
                            modelVersion |-> MODEL_VERSION])
           /\ engine' = [engine EXCEPT !.idx = @ + 1,
                                       !.log = Append(@, "success")]
    /\ UNCHANGED <<table, clock, analyzer, stream, saved, single>>

\* Lines 231-234: the loop is left and the invocation ends.
EngineReturn ==
    /\ engine.pc = "record"
    /\ engine.idx > Len(engine.batch)
    /\ engine' = IdleEngine
    /\ UNCHANGED <<table, credit_limit_table, clock, analyzer, stream, saved,
                   single>>

Next ==
    \/ \E w \in DOMAIN analyzer : Invoke(w)
    \/ \E w \in DOMAIN analyzer : AnalyzeRaises(w)
    \/ \E w \in DOMAIN analyzer : AnalyzeReturns(w)
    \/ \E w \in DOMAIN analyzer : GetItem(w)
    \/ \E w \in DOMAIN analyzer : UpdateItem(w)
    \/ \E w \in DOMAIN analyzer : Return(w)
    \/ OtherWrite
    \/ EngineInvoke
    \/ EngineSkips
    \/ EngineRaises
    \/ EngineSaves
    \/ EngineReturn

Spec == Init /\ [][Next]_vars

\* The analyzer's invocations alone.
ConcurrentNext ==
    \/ \E w \in DOMAIN analyzer : Invoke(w)
    \/ \E w \in DOMAIN analyzer : AnalyzeRaises(w)
    \/ \E w \in DOMAIN analyzer : AnalyzeReturns(w)
    \/ \E w \in DOMAIN analyzer : GetItem(w)
    \/ \E w \in DOMAIN analyzer : UpdateItem(w)
    \/ \E w \in DOMAIN analyzer : Return(w)

SpecConcurrent == ConcurrentInit /\ [][ConcurrentNext]_vars

(***************************************************************************)
(* Specification SpecLimit: the limit formula and the clamp on bounded     *)
(* inputs.                                                                 *)
(***************************************************************************)
\* Largest disposable income of the input grid, in units of 50.00.
MaxIncomeSteps == 30

\* Disposable incomes (cents): negative, zero, around both clamp bounds.
DisposableChoices ==
    {5000 * k : k \in (0 - 3)..MaxIncomeSteps}
        \cup {6249, 6250, 6251, 12499, 100000, 125001}

\* user_risk_score = 1 - risk, in thousandths, every 0.05.
UrsChoices == {50 * k : k \in 0..20}

LimitInit ==
    /\ \E c \in DisposableChoices, f \in ConfidenceChoices, u \in UrsChoices :
          lim = [pc |-> "start", cents |-> c, conf |-> f, urs |-> u,
                 initial |-> 0, final |-> 0]
    /\ fz = Unused /\ flt = Unused /\ bank = Unused /\ ServiceUnused /\ UnitsUnused

ComputeLimit ==
    /\ lim.pc = "start"
    /\ LET il == InitialLimit(lim.cents, lim.conf, lim.urs)
       IN  lim' = [lim EXCEPT !.pc = "done", !.initial = il,
                              !.final = FinalLimit(il)]
    /\ UNCHANGED <<fz, flt, bank, service, units>>

LimitNext == ComputeLimit

SpecLimit == LimitInit /\ [][LimitNext]_vars

(***************************************************************************)
(* Specification SpecFuzzy: assess_risk on a grid of in-range inputs.      *)
(***************************************************************************)
\* dti, volatility, min_balance (hundredths).
UnitGrid == {0, 25, 40, 50, 65, 100}

\* KYC scores in halves (0 .. 15 in steps of 0.5 is 0 .. 30); the fuzzy
\* input is 1 + (score / 15) * 4, in thirtieths 30 + 4 * halves.
ScoreGrid == {0, 12, 15, 20, 30}

FuzzyInit ==
    /\ \E d \in UnitGrid, v \in UnitGrid, m \in UnitGrid,
       h \in ScoreGrid, c \in ScoreGrid :
        fz = [pc |-> "start", dti |-> d, volatility |-> v, min_balance |-> m,
              debt_honesty |-> 30 + 4 * h, character |-> 30 + 4 * c,
              risk |-> [ok |-> FALSE, num |-> 0, den |-> 1]]
    /\ lim = Unused /\ flt = Unused /\ bank = Unused /\ ServiceUnused /\ UnitsUnused

AssessRisk ==
    /\ fz.pc = "start"
    /\ LET r == assess_risk(fz.dti, fz.volatility, fz.min_balance,
                            fz.debt_honesty, fz.character)
       IN  fz' = [fz EXCEPT !.pc = IF r.ok THEN "returned" ELSE "raised",
                            !.risk = r]
    /\ UNCHANGED <<lim, flt, bank, service, units>>

FuzzyNext == AssessRisk

SpecFuzzy == FuzzyInit /\ [][FuzzyNext]_vars

(***************************************************************************)
(* C4.  For every combination of in-range inputs (dti, volatility,         *)
(* minBalance in [0,1]; debtHonesty, character in [1,5]) assess_risk       *)
(* returns one risk score in [0,1]: at least one rule fires, so the        *)
(* centroid is defined.                                                    *)
(***************************************************************************)
InRange ==
    /\ fz.dti \in 0..100 /\ fz.volatility \in 0..100
    /\ fz.min_balance \in 0..100
    /\ fz.debt_honesty \in 30..150 /\ fz.character \in 30..150

C4_AsClaimed ==
    (fz.pc # "start" /\ InRange) =>
        /\ fz.pc = "returned"
        /\ 0 <= fz.risk.num /\ fz.risk.num <= 100 * fz.risk.den

\* assess_risk returned a score for in-range inputs.
C4_Witness ==
    /\ fz.pc = "returned" /\ InRange
    /\ 0 < fz.risk.num /\ fz.risk.num < 100 * fz.risk.den

(***************************************************************************)
(* Specification SpecOutlier: get_data_without_outliers on bounded series. *)
(***************************************************************************)
\* Longest series drawn value by value.
MaxSeriesLen == 4

SeriesValues == {0, 1, 2, 20}

\* A series of n - 1 equal values v and one value w.
SpikeSeries(n, v, w) == [i \in 1..n |-> IF i = n THEN w ELSE v]

\* Series long enough for the 3-sigma rule to remove a value.
LongSeries ==
    {SpikeSeries(n, v, w) : n \in 10..12, v \in {0, 5}, w \in {5, 100}}

SeriesChoices ==
    UNION {[1..n -> SeriesValues] : n \in 0..MaxSeriesLen} \cup LongSeries

OutlierInit ==
    /\ \E q \in SeriesChoices :
          flt = [pc |-> "start", data_points |-> q, clean |-> <<>>,
                 outliers |-> {}]
    /\ lim = Unused /\ fz = Unused /\ bank = Unused /\ ServiceUnused /\ UnitsUnused

FilterOutliers ==
    /\ flt.pc = "start"
    /\ LET r == get_data_without_outliers(flt.data_points)
       IN  flt' = [flt EXCEPT !.pc = "done", !.clean = r.clean,
                              !.outliers = r.outliers]
    /\ UNCHANGED <<lim, fz, bank, service, units>>

OutlierNext == FilterOutliers

SpecOutlier == OutlierInit /\ [][OutlierNext]_vars

(***************************************************************************)
(* C8.  For every series with fewer than 3 points, or whose sample         *)
(* standard deviation is 0, get_data_without_outliers is a no-op: the      *)
(* clean list is the input list (same values, same order) and there are    *)
(* no outliers.                                                            *)
(***************************************************************************)
AllEqual(q) == \A i, j \in DOMAIN q : q[i] = q[j]

C8_NoOp ==
    (flt.pc = "done" /\ (Len(flt.data_points) < 3 \/ AllEqual(flt.data_points)))
        => (flt.clean = flt.data_points /\ flt.outliers = {})

\* Both cases happen: a short series of different values, and a series of
\* three or more equal values.
C8_Witness ==
    /\ flt.pc = "done"
    /\ Len(flt.data_points) >= 3 /\ AllEqual(flt.data_points)
    /\ flt.clean = flt.data_points

\* The filter does remove a value from a long enough series.
OutlierRemoved ==
    flt.pc = "done" /\ flt.outliers # {} /\ Len(flt.clean) < Len(flt.data_points)

(***************************************************************************)
(* Specification SpecBank: analyze_bank_statement_csv on bounded ledgers.  *)
(***************************************************************************)
\* Most data rows of a ledger.
MaxRows == 6

\* The smaller debit amounts (cents); a large debit is ten times as much.
BaseAmounts == {3, 25}

\* The data rows a ledger is made of, for the base amount x: a debit of x,
\* a debit of 10 x, and a credit.
RowKinds(x) ==
    {[debit |-> x, credit |-> 0, dated |-> TRUE],
     [debit |-> 10 * x, credit |-> 0, dated |-> TRUE],
     [debit |-> 0, credit |-> 40, dated |-> TRUE]}

\* Row i of a ledger is dated the 15th of month i, and its balance is what
\* the row leaves of 300.00.
Ledger(kinds) ==
    [i \in DOMAIN kinds |->
        [date |-> IF kinds[i].dated THEN DayOf(i, 15) ELSE 0,
         debit |-> kinds[i].debit, credit |-> kinds[i].credit,
         balance |-> 300 + kinds[i].credit - kinds[i].debit]]

LedgerChoices ==
    {Ledger(kinds) :
        kinds \in UNION {[1..n -> RowKinds(x)] : n \in 1..MaxRows,
                                                 x \in BaseAmounts}}

NoMetrics ==
    [avgMonthlyIncome |-> 0, avgMonthlyExpenditure |-> 0,
     disposableIncome |-> 0, avgLowestMonthlyBalance |-> 0,
     balanceVolatility |-> 0, expenditureOutlierCount |-> 0]

BankStart(header, rows) ==
    [pc |-> "parse", header |-> header, rows |-> rows,
     all_transactions |-> <<>>, latest_date |-> 0, idx |-> 0,
     monthly_income |-> <<>>, monthly_expenditure |-> <<>>,
     monthly_lowest_balance |-> <<>>, metrics |-> NoMetrics, error |-> ""]

BankInit ==
    /\ \/ \E rows \in LedgerChoices : bank = BankStart("found", rows)
       \/ \E h \in {"not_found", "unmapped"} : bank = BankStart(h, <<>>)
       \/ bank = BankStart("found",
                           <<[date |-> 0, debit |-> 3, credit |-> 0,
                              balance |-> 297]>>)
    /\ lim = Unused /\ fz = Unused /\ flt = Unused /\ ServiceUnused /\ UnitsUnused

BankNext == BankParse \/ BankAggregate \/ BankSummarize

SpecBank == BankInit /\ [][BankNext]_vars

(***************************************************************************)
(* C7.  A bank statement whose in-window transactions cover 6 calendar     *)
(* months, one month's total expenditure being 10 times the equal non-zero *)
(* expenditure of each of the other five.                                  *)
(***************************************************************************)
\* The ledger is the scenario's, with x the expenditure of the five months.
SixMonthsOneTenfold(x) ==
    /\ bank.pc = "done"
    /\ Len(bank.rows) = 6
    /\ \A i \in 1..6 : bank.rows[i].credit = 0 /\ bank.rows[i].date # 0
    /\ \A i \in 1..6 : bank.rows[i].date >= bank.latest_date - 180
    /\ Cardinality({month_key(bank.rows[i].date) : i \in 1..6}) = 6
    /\ x > 0
    /\ \E j \in 1..6 :
          /\ bank.rows[j].debit = 10 * x
          /\ \A i \in 1..6 \ {j} : bank.rows[i].debit = x

\* C7 as claimed: that month's value is flagged as an expenditure outlier
\* and excluded from avgMonthlyExpenditure, and expenditureOutlierCount is 1.
C7_AsClaimed ==
    \A x \in BaseAmounts :
        SixMonthsOneTenfold(x) =>
            /\ bank.metrics.expenditureOutlierCount = 1
            /\ bank.metrics.avgMonthlyExpenditure = x

\* What the code does in the scenario of C7: with six values the tenfold
\* month deviates from the mean by 7.5 x, less than 3 * stdev (about
\* 11.02 x), so no value is flagged: the month stays in
\* avgMonthlyExpenditure, which is 15 x / 6 rounded to cents, and
\* expenditureOutlierCount is 0.
C7_NotFlagged ==
    \A x \in BaseAmounts :
        SixMonthsOneTenfold(x) =>
            /\ bank.metrics.expenditureOutlierCount = 0
            /\ bank.metrics.avgMonthlyExpenditure = Round2(15 * x, 6)

\* The scenario's ledger was analysed.
C7_Witness ==
    /\ \E x \in BaseAmounts : SixMonthsOneTenfold(x)
    /\ Len(bank.monthly_expenditure) = 6
    /\ bank.metrics.avgMonthlyExpenditure > 0

(***************************************************************************)
(* C3.  For every initial_limit computed, the persisted creditLimit is 50  *)
(* when initial_limit < 50, 1000 when initial_limit > 1000 and             *)
(* floor(initial_limit) otherwise; so it is an integer in [50, 1000], for  *)
(* negative disposable income too.                                         *)
(***************************************************************************)
C3_Clamp ==
    lim.pc = "done" =>
        /\ lim.initial < 50 * LimitUnit => lim.final = 50
        /\ lim.initial > 1000 * LimitUnit => lim.final = 1000
        /\ (50 * LimitUnit <= lim.initial /\ lim.initial <= 1000 * LimitUnit)
              => lim.final = FloorOf(lim.initial, LimitUnit)
        /\ lim.final \in 50..1000

\* A limit strictly inside the bounds with a fractional part was floored.
C3_Witness ==
    /\ lim.pc = "done"
    /\ 50 * LimitUnit < lim.initial /\ lim.initial < 1000 * LimitUnit
    /\ lim.initial % LimitUnit # 0
    /\ lim.final = FloorOf(lim.initial, LimitUnit)

(***************************************************************************)
(* C5.  Monotonicity in the risk score.                                    *)
(***************************************************************************)
\* C5 as claimed: for every disposable income (negative ones included) and
\* a fixed confidence score, a larger user_risk_score never gives a smaller
\* initial_limit.
C5_AsClaimed ==
    lim.pc = "done" =>
        \A u2 \in UrsChoices :
            u2 >= lim.urs =>
                lim.initial <= InitialLimit(lim.cents, lim.conf, u2)

\* C5 as amended: the same for non-negative disposable income and
\* non-negative confidence score.
C5_Monotone ==
    (lim.pc = "done" /\ lim.cents >= 0 /\ lim.conf >= 0) =>
        \A u2 \in UrsChoices :
            u2 >= lim.urs =>
                lim.initial <= InitialLimit(lim.cents, lim.conf, u2)

\* A positive income whose initial_limit strictly grows with a better score.
C5_Witness ==
    /\ lim.pc = "done" /\ lim.cents > 0 /\ lim.conf > 0
    /\ \E u2 \in UrsChoices :
           /\ u2 > lim.urs
           /\ lim.initial < InitialLimit(lim.cents, lim.conf, u2)

(***************************************************************************)
(* C6.  Monotonicity in disposable income: with confidence score > 0 and   *)
(* user_risk_score in [0,1] fixed, a larger disposable income never gives  *)
(* a smaller initial_limit nor a smaller final creditLimit.                *)
(***************************************************************************)
C6_Monotone ==
    (lim.pc = "done" /\ lim.conf > 0 /\ lim.urs \in 0..1000) =>
        \A c2 \in DisposableChoices :
            c2 >= lim.cents =>
                LET il2 == InitialLimit(c2, lim.conf, lim.urs)
                IN  /\ lim.initial <= il2
                    /\ lim.final <= FinalLimit(il2)

\* A larger income that strictly raises the final limit, and one that is
\* cut by the maximum.
C6_Witness ==
    /\ lim.pc = "done" /\ lim.conf > 0
    /\ \E c2, c3 \in DisposableChoices :
           /\ c2 > lim.cents /\ c3 > c2
           /\ lim.final > MINIMUM_CREDIT_LIMIT
           /\ lim.final < FinalLimit(InitialLimit(c2, lim.conf, lim.urs))
           /\ FinalLimit(InitialLimit(c3, lim.conf, lim.urs))
                = MAXIMUM_CREDIT_LIMIT
           /\ InitialLimit(c3, lim.conf, lim.urs)
                > MAXIMUM_CREDIT_LIMIT * LimitUnit

(***************************************************************************)
(* Claims about the service.                                               *)
(***************************************************************************)
Ids(per_statement_list) ==
    {per_statement_list[i].id : i \in DOMAIN per_statement_list}

\* C1: whatever statement-analysis runs have been executed one after the
\* other for a user, with new and repeated file names, the user's
\* perStatement list holds at most one record per id.
C1_OneRecordPerId ==
    \A u \in Users :
        \A i, j \in DOMAIN table[u].perStatement :
            table[u].perStatement[i].id = table[u].perStatement[j].id => i = j

\* A file has been analysed twice for a user and its second record has
\* replaced the first.
C1_Witness ==
    \E u \in Users :
        /\ Len(table[u].perStatement) = 1
        /\ table[u].perStatement[1].analysisDate = 2
        /\ table[u].perStatement[1].id = "a.csv"
        /\ saved = {[user_id |-> u, id |-> "a.csv"]}
        /\ analyzer["w1"].log = <<"saved", "saved">>

AllRunsCompleted ==
    \A w \in DOMAIN analyzer : analyzer[w].pc \in {"idle", "returned"}

\* C2: no lost update.  Once the concurrent statement-analysis runs for a
\* user have completed, every statement record a run has saved is present in
\* the user's perStatement list.
C2_NoLostUpdate ==
    AllRunsCompleted =>
        \A s \in saved : s.id \in Ids(table[s.user_id].perStatement)

\* Two runs at once have each saved one record for the same user, with
\* different ids, and both have completed.
C2_Witness ==
    /\ \A w \in Workers :
          analyzer[w].pc = "returned" /\ analyzer[w].log = <<"saved">>
    /\ \E u \in Users :
          saved = {[user_id |-> u, id |-> "a.csv"],
                   [user_id |-> u, id |-> "b.csv"]}

\* The step is a statement analysis that fails.
AnalysisFails ==
    \E w \in DOMAIN analyzer :
        /\ Len(analyzer'[w].log) = Len(analyzer[w].log) + 1
        /\ analyzer'[w].log[Len(analyzer'[w].log)] = "raised"

\* A profile for which the limit calculation fails: no userId, no statement
\* analysis, or an error during scoring.
FailingProfile(profile) ==
    \/ profile.userId = ""
    \/ profile.perStatement = <<>>
    \/ ScoredLatest(profile.kycAnswers,
                    LatestStatement(profile.perStatement).metrics).status
           = "raised"

\* The step is a limit calculation for a failing profile.
CalculationFails ==
    /\ engine.pc = "record"
    /\ engine'.pc = "record"
    /\ engine.idx <= Len(engine.batch)
    /\ engine'.idx # engine.idx
    /\ ~Skipped(engine.batch[engine.idx])
    /\ FailingProfile(engine.batch[engine.idx].NewImage[1])

\* C9: a run that fails performs no write.  A statement analysis that fails
\* leaves every stored perStatement list unchanged, and a limit calculation
\* that fails (no userId, empty perStatement, error during scoring) leaves
\* every credit limit record unchanged and creates none.
C9_FailureWritesNothing ==
    [][/\ AnalysisFails => table' = table
       /\ CalculationFails => credit_limit_table' = credit_limit_table]_vars

\* A statement analysis has failed after one was stored, and the limit
\* calculation has just failed in scoring for a user who has a credit limit
\* record.
C9_Witness ==
    /\ analyzer["w1"].log = <<"saved", "raised">>
    /\ engine.log = <<"raised">>
    /\ LET profile == engine.batch[1].NewImage[1]
       IN  /\ profile.userId \in Users
           /\ profile.perStatement # <<>>
           /\ table[profile.userId].perStatement # <<>>
           /\ credit_limit_table[profile.userId] # NoLimit

\* C10: batch isolation.  A handler that has left its loop has processed
\* every record of its batch, whichever of them raised; every stream record
\* with a profile for which the calculation does not fail has had its limit
\* saved.
C10_BatchIsolation ==
    /\ \A w \in DOMAIN analyzer :
          analyzer[w].pc = "returned" =>
              Len(analyzer[w].log) = analyzer[w].size
    /\ (engine.pc = "record" /\ engine.idx > Len(engine.batch)) =>
          /\ Len(engine.log) = Len(engine.batch)
          /\ \A i \in DOMAIN engine.batch :
                (~Skipped(engine.batch[i])
                     /\ ~FailingProfile(engine.batch[i].NewImage[1])) =>
                    /\ engine.log[i] = "success"
                    /\ credit_limit_table[engine.batch[i].NewImage[1].userId]
                           # NoLimit

\* Both handlers have left the loop of a batch whose first record raised and
\* whose second record was saved.
C10_Witness ==
    /\ analyzer["w1"].pc = "returned"
    /\ analyzer["w1"].log = <<"raised", "saved">>
    /\ engine.pc = "record"
    /\ engine.idx > Len(engine.batch)
    /\ engine.log = <<"raised", "success">>

\* The step is a limit calculation that succeeds for user u.
CalculationSucceeds(u) ==
    /\ engine.pc = "record"
    /\ engine.idx <= Len(engine.batch)
    /\ Len(engine'.log) = Len(engine.log) + 1
    /\ engine'.log[Len(engine'.log)] = "success"
    /\ engine.batch[engine.idx].NewImage[1].userId = u

\* C11: the limit table holds one record per userId, the one written by
\* the most recent successful run for that user.  A successful run for a
\* user overwrites the user's record with its own item, and no other step
\* and no run for another user changes it.
C11_LastWriterWins ==
    [][\A u \in Users :
          IF CalculationSucceeds(u)
          THEN LET profile == engine.batch[engine.idx].NewImage[1]
               IN  credit_limit_table'[u] =
                       [creditLimit |->
                            ScoredLatest(profile.kycAnswers,
                                LatestStatement(profile.perStatement).metrics)
                                .creditLimit,
                        scoreLastCalculatedAt |-> clock,
                        modelVersion |-> MODEL_VERSION]
          ELSE credit_limit_table'[u] = credit_limit_table[u]]_vars

\* Both users have a record, written by runs at different times, the later
\* one by the run that has just succeeded.
C11_Witness ==
    /\ \A u \in Users : credit_limit_table[u] # NoLimit
    /\ \E u \in Users :
          /\ credit_limit_table[u].scoreLastCalculatedAt = clock
          /\ \A v \in Users \ {u} :
                credit_limit_table[v].scoreLastCalculatedAt < clock
    /\ engine.log # <<>>
    /\ engine.log[Len(engine.log)] = "success"

(***************************************************************************)
(* Specification SpecInputs: steps 1 and 2 of calculate_initial_limit on   *)
(* bounded KYC answers and statements.                                     *)
(***************************************************************************)
Questions ==
    {"residenceDuration", "borrowingHistory", "repaymentAbility",
     "monthlyIncomeRange", "jobDuration", "borrowingSource"}

\* A question is not answered (0), or answered with the answer of most
\* points (1), with the answer of fewest points (2), or with an answer that
\* is in no map (3).
AnswerKinds == 0..3

AnswerOf(question, kind) ==
    IF kind = 3 THEN "Prefer not to say"
    ELSE IF question = "residenceDuration"
    THEN (IF kind = 1 THEN "More than 10 years" ELSE "Less than 2 years")
    ELSE IF question = "borrowingHistory"
    THEN (IF kind = 1 THEN "Yes, but I paid it off"
          ELSE "Yes, and I still owe money")
    ELSE IF question = "repaymentAbility"
    THEN (IF kind = 1 THEN "Yes, without delays or challenges"
          ELSE "Sometimes I wasn't able to pay back")
    ELSE IF question = "monthlyIncomeRange"
    THEN (IF kind = 1 THEN "Above 1800 GHS" ELSE "Below 350 GHS")
    ELSE IF question = "jobDuration"
    THEN (IF kind = 1 THEN "More than 10 years" ELSE "Less than 2 years")
    ELSE (IF kind = 1 THEN "Banks" ELSE "Friends or family")

\* The kycAnswers of a profile: any subset of the questions answered.
KycAnswers(kinds) ==
    [question \in {q \in Questions : kinds[q] # 0} |->
        AnswerOf(question, kinds[question])]

\* The numbers of a latest statement, in cents: zero, positive and negative
\* income, and ratios below 0, inside [0, 1] and above 1.
StatementChoices ==
    [avgMonthlyIncome : {0, 50000, 0 - 50000},
     avgMonthlyExpenditure : {0 - 2000, 20000, 80000},
     avgLowestMonthlyBalance : {0 - 10000, 30000},
     balanceVolatility : {0, 70000},
     disposableIncome : {30000}]

InputsInit ==
    /\ \E kinds \in [Questions -> AnswerKinds],
          latest_statement \in StatementChoices :
          inp = [pc |-> "start", kyc_answers |-> KycAnswers(kinds),
                 latest_statement |-> latest_statement,
                 kyc_scores |-> [character_score |-> 0, capacity_score |-> 0],
                 inputs |-> [debt_honesty |-> 0, character |-> 0, dti |-> 0,
                             volatility |-> 0, min_balance |-> 0]]
    /\ momo = Unused /\ ups = Unused
    /\ evaluator = Unused /\ runs = Unused /\ written = Unused
    /\ lim = Unused /\ fz = Unused /\ flt = Unused /\ bank = Unused
    /\ ServiceUnused

\* Lines 144-162: the KYC scores and the five fuzzy inputs.
Normalize ==
    /\ inp.pc = "start"
    /\ inp' = [inp EXCEPT
                  !.pc = "done",
                  !.kyc_scores = calculate_kyc_scores(inp.kyc_answers),
                  !.inputs = FuzzyInputs(inp.kyc_answers,
                                         inp.latest_statement)]
    /\ UNCHANGED <<lim, fz, flt, bank, service, momo, ups, evaluator, runs,
                   written>>

InputsNext == Normalize

SpecInputs == InputsInit /\ [][InputsNext]_vars

\* C13: without KYC answers calculate_kyc_scores returns characterScore 7.5
\* and capacityScore 10 (15 and 20 halves), and the fuzzy inputs are
\* debtHonesty = 1 + (10/15)*4 (110 thirtieths) and character = 3.0 (90
\* thirtieths).
C13_NoAnswers ==
    (inp.pc = "done" /\ DOMAIN inp.kyc_answers = {}) =>
        /\ inp.kyc_scores = [character_score |-> 15, capacity_score |-> 20]
        /\ inp.inputs.debt_honesty = 110
        /\ inp.inputs.character = 90

C13_Witness ==
    /\ inp.pc = "done" /\ DOMAIN inp.kyc_answers = {}
    /\ inp.inputs.character = 90

\* The points of the marking scheme for an answer: those of the answer of
\* most points, those of the answer of fewest points, or none.
SchemePoints(question, kind) ==
    IF question = "residenceDuration" THEN <<5, 1>>[kind]
    ELSE IF question = "borrowingHistory" THEN <<5, 1>>[kind]
    ELSE IF question = "repaymentAbility" THEN <<5, 0>>[kind]
    ELSE IF question = "monthlyIncomeRange" THEN <<5, 0>>[kind]
    ELSE IF question = "jobDuration" THEN <<5, 1>>[kind]
    ELSE <<5, 2>>[kind]

\* The points the claim gives a question: the mapped answer's, or the
\* default for a missing or unmapped answer.
ClaimedPoints(kyc_answers, question, default) ==
    IF question \notin DOMAIN kyc_answers THEN default
    ELSE IF kyc_answers[question] = AnswerOf(question, 1)
    THEN SchemePoints(question, 1)
    ELSE IF kyc_answers[question] = AnswerOf(question, 2)
    THEN SchemePoints(question, 2)
    ELSE default

\* C14: for non-empty kycAnswers characterScore is the sum of the mapped
\* answers residenceDuration, borrowingHistory, repaymentAbility with
\* defaults 1, 3, 3, capacityScore that of monthlyIncomeRange, jobDuration,
\* borrowingSource with defaults 0, 1, 3, and both lie in [0, 15] (scores in
\* halves).
C14_SumsWithDefaults ==
    (inp.pc = "done" /\ DOMAIN inp.kyc_answers # {}) =>
        /\ inp.kyc_scores.character_score =
               2 * (ClaimedPoints(inp.kyc_answers, "residenceDuration", 1)
                    + ClaimedPoints(inp.kyc_answers, "borrowingHistory", 3)
                    + ClaimedPoints(inp.kyc_answers, "repaymentAbility", 3))
        /\ inp.kyc_scores.capacity_score =
               2 * (ClaimedPoints(inp.kyc_answers, "monthlyIncomeRange", 0)
                    + ClaimedPoints(inp.kyc_answers, "jobDuration", 1)
                    + ClaimedPoints(inp.kyc_answers, "borrowingSource", 3))
        /\ 0 <= inp.kyc_scores.character_score
        /\ inp.kyc_scores.character_score <= 30
        /\ 0 <= inp.kyc_scores.capacity_score
        /\ inp.kyc_scores.capacity_score <= 30

\* Some questions are answered with a mapped answer, one with an unmapped
\* one and one not at all, and the defaults make part of both scores.
C14_Witness ==
    /\ inp.pc = "done"
    /\ DOMAIN inp.kyc_answers = Questions \ {"jobDuration"}
    /\ inp.kyc_answers["residenceDuration"] = "Prefer not to say"
    /\ inp.kyc_answers["borrowingHistory"] = "Yes, but I paid it off"
    /\ inp.kyc_answers["repaymentAbility"] = "Yes, without delays or challenges"
    /\ inp.kyc_answers["monthlyIncomeRange"] = "Above 1800 GHS"
    /\ inp.kyc_answers["borrowingSource"] = "Banks"
    /\ inp.kyc_scores = [character_score |-> 22, capacity_score |-> 22]

\* C15: when the latest statement's avgMonthlyIncome is zero the fuzzy
\* engine gets dti = 1.0, volatility = 1.0 and minBalance = 0.0 whatever
\* the statement's other numbers are.
C15_ZeroIncome ==
    (inp.pc = "done" /\ inp.latest_statement.avgMonthlyIncome = 0) =>
        /\ inp.inputs.dti = 100
        /\ inp.inputs.volatility = 100
        /\ inp.inputs.min_balance = 0

C15_Witness ==
    /\ inp.pc = "done"
    /\ inp.latest_statement.avgMonthlyIncome = 0
    /\ inp.latest_statement.avgMonthlyExpenditure = 80000
    /\ inp.latest_statement.avgLowestMonthlyBalance = 30000
    /\ inp.inputs.dti = 100 /\ inp.inputs.min_balance = 0

\* C20: the five values passed to assess_risk are in range: dti, volatility
\* and minBalance in [0, 1] (hundredths), debtHonesty and character in
\* [1, 5] (thirtieths).
C20_InputsInRange ==
    inp.pc = "done" =>
        /\ 0 <= inp.inputs.dti /\ inp.inputs.dti <= 100
        /\ 0 <= inp.inputs.volatility /\ inp.inputs.volatility <= 100
        /\ 0 <= inp.inputs.min_balance /\ inp.inputs.min_balance <= 100
        /\ 30 <= inp.inputs.debt_honesty /\ inp.inputs.debt_honesty <= 150
        /\ 30 <= inp.inputs.character /\ inp.inputs.character <= 150

\* A ratio below 0 and a ratio above 1 were clamped, with a negative income.
C20_Witness ==
    /\ inp.pc = "done"
    /\ inp.latest_statement.avgMonthlyIncome < 0
    /\ inp.latest_statement.avgMonthlyExpenditure = 80000
    /\ inp.latest_statement.avgLowestMonthlyBalance = 0 - 10000
    /\ inp.inputs.dti = 0
    /\ inp.inputs.min_balance = 20
    /\ inp.inputs.debt_honesty = 150

(***************************************************************************)
(* Specification SpecUpsert: the update-or-append of lines 363-376 on      *)
(* bounded perStatement lists.                                             *)
(***************************************************************************)
\* Longest perStatement list before the update.
MaxListLen == 3

StatementIds == {"a.csv", "b.csv", "c.csv", "d.csv"}

\* The lists the handler can read: records of different ids, analysed one
\* after the other.
ListChoices ==
    UNION {{[i \in 1..n |->
                [id |-> ids[i], analysisDate |-> i,
                 metrics |-> NoRecordMetrics]] :
            ids \in {q \in [1..n -> StatementIds] :
                        \A i, j \in 1..n : q[i] = q[j] => i = j}} :
           n \in 0..MaxListLen}

UpsertInit ==
    /\ \E per_statement_list \in ListChoices, file_name \in StatementIds,
          metrics_data \in MetricChoices :
          ups = [pc |-> "start", per_statement_list |-> per_statement_list,
                 new_metric_item |->
                     [id |-> file_name,
                      analysisDate |-> Len(per_statement_list) + 1,
                      metrics |-> metrics_data],
                 updated |-> <<>>]
    /\ inp = Unused /\ momo = Unused
    /\ evaluator = Unused /\ runs = Unused /\ written = Unused
    /\ lim = Unused /\ fz = Unused /\ flt = Unused /\ bank = Unused
    /\ ServiceUnused

\* Lines 363-379: the list as update_item will save it.
Upsert ==
    /\ ups.pc = "start"
    /\ ups' = [ups EXCEPT
                  !.pc = "done",
                  !.updated = UpdateOrAppend(ups.per_statement_list,
                                             ups.new_metric_item)]
    /\ UNCHANGED <<lim, fz, flt, bank, service, inp, momo, evaluator, runs,
                   written>>

UpsertNext == Upsert

SpecUpsert == UpsertInit /\ [][UpsertNext]_vars

\* C17: replace in place.  When the id is already in the list the new record
\* takes the index of the old one and every other record keeps its content
\* and position; when the id is new the record is appended at the end and
\* the existing records are unchanged.
C17_ReplaceInPlace ==
    ups.pc = "done" =>
        IF \E i \in DOMAIN ups.per_statement_list :
              ups.per_statement_list[i].id = ups.new_metric_item.id
        THEN /\ Len(ups.updated) = Len(ups.per_statement_list)
             /\ \A i \in DOMAIN ups.per_statement_list :
                   ups.updated[i] =
                       IF ups.per_statement_list[i].id = ups.new_metric_item.id
                       THEN ups.new_metric_item
                       ELSE ups.per_statement_list[i]
        ELSE /\ Len(ups.updated) = Len(ups.per_statement_list) + 1
             /\ ups.updated[Len(ups.updated)] = ups.new_metric_item
             /\ \A i \in DOMAIN ups.per_statement_list :
                   ups.updated[i] = ups.per_statement_list[i]

\* The first of three records was replaced.
C17_Witness ==
    /\ ups.pc = "done"
    /\ Len(ups.per_statement_list) = 3
    /\ ups.per_statement_list[1].id = ups.new_metric_item.id
    /\ ups.updated[1] = ups.new_metric_item
    /\ ups.updated[1] # ups.per_statement_list[1]

(***************************************************************************)
(* Specification SpecMomo: analyze_mtn_momo_csv on bounded ledgers.        *)
(* Phone numbers are sequences of one-character strings, amounts and       *)
(* balances are in cents.                                                  *)
(***************************************************************************)
DigitChars == {"0", "1", "2", "3", "4", "5", "6", "7", "8", "9"}

\* re.sub(r'\D', '', s): the digits of s, in order.
Digits(s) == SelectSeq(s, LAMBDA c : c \in DigitChars)

\* s[-9:]: the last nine characters of s, or all of s when it is shorter.
LastNine(s) == SubSeq(s, Max(1, Len(s) - 8), Len(s))

\* s.endswith(suffix).
EndsWith(s, suffix) ==
    /\ Len(s) >= Len(suffix)
    /\ SubSeq(s, Len(s) - Len(suffix) + 1, Len(s)) = suffix

\* row.get("TRANS. TYPE", "").upper().strip() of the types the ledgers use.
UpperStrip(trans_type) ==
    IF trans_type \in {"debit", " Debit "} THEN "DEBIT" ELSE trans_type

\* The user's number as the operator prints it in FROM NO. and in TO NO.,
\* another subscriber's number, and a cell without digits.
UserLocal == <<"0", "2", "4", "4", "0", "0", "0", "0", "0", "1">>
UserIntl ==
    <<"+", "2", "3", "3", "2", "4", "4", "0", "0", "0", "0", "0", "1">>
OtherNo == <<"0", "2", "4", "4", "0", "0", "0", "0", "0", "2">>
NoDigits == <<"N", "/", "A">>

\* Lines 236-243 without the test of the row's type: the first FROM NO.
\* with digits gives the suffix.
FindPhoneSuffixAnyType(rows) ==
    LET found == SelectSeq(rows, LAMBDA row : Digits(row.from_no) # <<>>)
    IN  IF found = <<>> THEN <<>> ELSE LastNine(Digits(found[1].from_no))

\* Lines 236-243 over the pre-scan loop: user_phone_suffix is the last nine
\* digits of FROM NO. of the first row, dated or not, whose type is DEBIT
\* or PAYMENT and whose FROM NO. has a digit; <<>> stands for None.
FindPhoneSuffix(rows) ==
    LET found == SelectSeq(rows, LAMBDA row :
                     /\ UpperStrip(row.trans_type) \in {"DEBIT", "PAYMENT"}
                     /\ row.from_no # <<>>
                     /\ Digits(row.from_no) # <<>>)
    IN  IF found = <<>> THEN <<>> ELSE LastNine(Digits(found[1].from_no))

\* Lines 270-273: is_income.
is_income(to_no, user_phone_suffix) ==
    /\ Digits(to_no) # <<>>
    /\ EndsWith(Digits(to_no), user_phone_suffix)

\* Most data rows of a mobile-money ledger.
MaxMomoRows == 6

\* The data rows a ledger is made of: two payments out of the user's wallet,
\* two receipts into it, and a payment whose FROM NO. is empty.
MomoRowKinds ==
    {[trans_type |-> "DEBIT", from_no |-> UserLocal, to_no |-> OtherNo,
      amount |-> 1000, balance |-> 4000],
     [trans_type |-> "debit", from_no |-> UserLocal, to_no |-> OtherNo,
      amount |-> 2000, balance |-> 3000],
     [trans_type |-> "TRANSFER", from_no |-> OtherNo, to_no |-> UserIntl,
      amount |-> 1000, balance |-> 6000],
     [trans_type |-> "TRANSFER", from_no |-> OtherNo, to_no |-> UserIntl,
      amount |-> 2000, balance |-> 7000],
     [trans_type |-> "PAYMENT", from_no |-> <<>>, to_no |-> OtherNo,
      amount |-> 1000, balance |-> 4000]}

MomoRow(kind, date) ==
    [date |-> date, trans_type |-> kind.trans_type, from_no |-> kind.from_no,
     to_no |-> kind.to_no, amount |-> kind.amount, balance |-> kind.balance]

\* Rows 2m - 1 and 2m of a ledger are dated the 15th of month m.
MomoLedger(kinds) ==
    [i \in DOMAIN kinds |-> MomoRow(kinds[i], DayOf((i + 1) \div 2, 15))]

\* Ledgers with a row without a parseable date (date 0), with a row older
\* than the 180-day window, and with a FROM NO. without digits.
MomoSpecialLedgers ==
    LET debit == [trans_type |-> "DEBIT", from_no |-> UserLocal,
                  to_no |-> OtherNo, amount |-> 1000, balance |-> 4000]
        receipt == [trans_type |-> "TRANSFER", from_no |-> OtherNo,
                    to_no |-> UserIntl, amount |-> 2000, balance |-> 7000]
        nodigits == [trans_type |-> "PAYMENT", from_no |-> NoDigits,
                     to_no |-> OtherNo, amount |-> 1000, balance |-> 4000]
    IN  {<<MomoRow(debit, 0)>>,
         <<MomoRow(receipt, 0)>>,
         <<MomoRow(receipt, DayOf(3, 15)), MomoRow(debit, 0)>>,
         <<MomoRow(debit, DayOf(1, 15)), MomoRow(receipt, DayOf(9, 15))>>,
         <<MomoRow(nodigits, DayOf(1, 15)), MomoRow(receipt, DayOf(2, 15))>>}

MomoLedgerChoices ==
    {MomoLedger(kinds) :
        kinds \in UNION {[1..n -> MomoRowKinds] : n \in 0..MaxMomoRows}}
    \cup MomoSpecialLedgers

MomoStart(header, rows) ==
    [pc |-> "prescan", header |-> header, rows |-> rows,
     all_transactions |-> <<>>, latest_date |-> 0,
     user_phone_suffix |-> <<>>, idx |-> 0,
     monthly_income |-> <<>>, monthly_expenditure |-> <<>>,
     monthly_lowest_balance |-> <<>>, metrics |-> NoMetrics, error |-> ""]

MomoInit ==
    /\ \/ \E rows \in MomoLedgerChoices : momo = MomoStart("found", rows)
       \/ momo = MomoStart("not_found", <<>>)
    /\ inp = Unused /\ ups = Unused
    /\ evaluator = Unused /\ runs = Unused /\ written = Unused
    /\ lim = Unused /\ fz = Unused /\ flt = Unused /\ bank = Unused
    /\ ServiceUnused

\* Steps 1 and 2 (lines 213-249): the header row is looked for, then the
\* pre-scan collects the rows with a parseable date, the latest date and the
\* user's phone suffix.  Raises when there is no header row, then when no
\* phone suffix was found, then when no date parsed.
MomoPrescan ==
    /\ momo.pc = "prescan"
    /\ LET parsed == SelectSeq(momo.rows, LAMBDA row : row.date # 0)
           user_phone_suffix == FindPhoneSuffix(momo.rows)
       IN  IF momo.header = "not_found"
           THEN momo' = [momo EXCEPT !.pc = "raised",
                                     !.error = "no header row"]
           ELSE IF user_phone_suffix = <<>>
           THEN momo' = [momo EXCEPT !.pc = "raised",
                                     !.error = "no phone number"]
           ELSE IF parsed = <<>>
           THEN momo' = [momo EXCEPT !.pc = "raised",
                                     !.error = "no valid dates"]
           ELSE momo' = [momo EXCEPT
                            !.pc = "aggregate",
                            !.all_transactions = parsed,
                            !.latest_date =
                                MaxOf([i \in DOMAIN parsed |-> parsed[i].date]),
                            !.user_phone_suffix = user_phone_suffix,
                            !.idx = 1]
    /\ UNCHANGED <<lim, fz, flt, bank, service, inp, ups, evaluator, runs,
                   written>>

\* Step 3, one transaction (lines 259-280): a transaction before
\* latest_date - 180 days is skipped; otherwise its balance lowers the
\* month's lowest balance, and its amount is added to the month's income
\* when TO NO. ends with the user's suffix, else to the month's expenditure.
MomoAggregate ==
    /\ momo.pc = "aggregate"
    /\ momo.idx <= Len(momo.all_transactions)
    /\ LET trans == momo.all_transactions[momo.idx]
           key == month_key(trans.date)
           income == is_income(trans.to_no, momo.user_phone_suffix)
       IN  IF trans.date < six_months_ago(momo.latest_date)
           THEN momo' = [momo EXCEPT !.idx = @ + 1]
           ELSE momo' = [momo EXCEPT
                    !.idx = @ + 1,
                    !.monthly_lowest_balance =
                        DictLower(@, key, trans.balance),
                    !.monthly_income =
                        IF income THEN DictAdd(@, key, trans.amount) ELSE @,
                    !.monthly_expenditure =
                        IF income THEN @ ELSE DictAdd(@, key, trans.amount)]
    /\ UNCHANGED <<lim, fz, flt, bank, service, inp, ups, evaluator, runs,
                   written>>

\* Step 4 (lines 282-311): the metrics computed from the three monthly
\* dicts.  disposable_income is the difference of the unrounded averages,
\* rounded on its own.
MomoMetrics(monthly_income, monthly_expenditure, monthly_lowest_balance) ==
    LET income_values == DictValues(monthly_income)
        expenditure_values == DictValues(monthly_expenditure)
        income_no_outliers == get_data_without_outliers(income_values).clean
        expenditure == get_data_without_outliers(expenditure_values)
        lowest_balance_values == DictValues(monthly_lowest_balance)
        ni == Max(Len(income_no_outliers), 1)
        ne == Max(Len(expenditure.clean), 1)
    IN  [avgMonthlyIncome |-> MeanOrZero(income_no_outliers),
         avgMonthlyExpenditure |-> MeanOrZero(expenditure.clean),
         disposableIncome |->
             Round2(SumSeq(income_no_outliers) * ne
                        - SumSeq(expenditure.clean) * ni,
                    ni * ne),
         avgLowestMonthlyBalance |-> MeanOrZero(lowest_balance_values),
         balanceVolatility |-> StdevOrZero(lowest_balance_values),
         expenditureOutlierCount |-> Cardinality(expenditure.outliers)]

\* After the last transaction: the returned metrics.
MomoSummarize ==
    /\ momo.pc = "aggregate"
    /\ momo.idx > Len(momo.all_transactions)
    /\ momo' = [momo EXCEPT
                   !.pc = "done",
                   !.metrics = MomoMetrics(momo.monthly_income,
                                           momo.monthly_expenditure,
                                           momo.monthly_lowest_balance)]
    /\ UNCHANGED <<lim, fz, flt, bank, service, inp, ups, evaluator, runs,
                   written>>

MomoNext == MomoPrescan \/ MomoAggregate \/ MomoSummarize

SpecMomo == MomoInit /\ [][MomoNext]_vars

\* No data row has type DEBIT or PAYMENT with a non-empty FROM NO.
NoPayingRow ==
    \A i \in DOMAIN momo.rows :
        ~ (/\ UpperStrip(momo.rows[i].trans_type) \in {"DEBIT", "PAYMENT"}
           /\ momo.rows[i].from_no # <<>>)

C18_AsClaimed ==
    momo.pc = "done" =>
        momo.metrics.disposableIncome =
            momo.metrics.avgMonthlyIncome - momo.metrics.avgMonthlyExpenditure

\* What the code guarantees: the three values are rounded separately, so
\* the persisted difference is within one cent of the persisted
\* disposableIncome.
WithinOneCent ==
    momo.pc = "done" =>
        Abs(momo.metrics.disposableIncome
            - (momo.metrics.avgMonthlyIncome
               - momo.metrics.avgMonthlyExpenditure)) <= 1

\* A ledger with three months of income and three months of expenditure
\* was analysed.
C18_Witness ==
    /\ momo.pc = "done"
    /\ Len(momo.monthly_income) = 3 /\ Len(momo.monthly_expenditure) = 3
    /\ momo.metrics.avgMonthlyIncome > 0
    /\ momo.metrics.avgMonthlyExpenditure > 0

(***************************************************************************)
(* Specifications SpecEvaluator and SpecEvaluatorConcurrent: the limit     *)
(* calculator on the evaluator built at module load (lines 65-80).  The    *)
(* simulation object keeps its five inputs and its output between calls;   *)
(* assess_risk assigns the inputs one statement at a time, calls compute   *)
(* and reads the output.  runs holds the locals of each caller, written    *)
(* the items put to the limit table, in the order of the puts.             *)
(***************************************************************************)
\* Calls of calculate_initial_limit started in a behaviour.
MaxCalls == 3

\* The parameters of assess_risk, in the order of their assignments.
InputNames == <<"DTI", "Volatility", "MinBalance", "DebtHonesty", "Character">>

\* An input that was never assigned.
NotSet == 0 - 1

NoOutput == [ok |-> FALSE, num |-> 0, den |-> 1]

\* ControlSystemSimulation(evaluation_ctrl), as built at line 66.
NewSimulation ==
    [input |-> [name \in Range(InputNames) |-> NotSet], output |-> NoOutput]

\* The profiles of three users: a moderate statement with no kycAnswers and
\* with the highest-scoring ones, and a statement for which no rule fires.
EngineProfiles ==
    LET moderate == CHOOSE m \in MetricChoices : m.avgMonthlyIncome = 100000
        sparse == CHOOSE m \in MetricChoices : m.avgMonthlyIncome # 100000
        best == CHOOSE k \in KycChoices : k # <<>>
    IN  ("u1" :> [kycAnswers |-> <<>>, latest_statement |-> moderate]) @@
        ("u2" :> [kycAnswers |-> best, latest_statement |-> moderate]) @@
        ("u3" :> [kycAnswers |-> <<>>, latest_statement |-> sparse])

\* Steps 1 and 2 of calculate_initial_limit: the arguments of assess_risk at
\* line 165, in the order of its parameters.
ArgsOf(profile) ==
    LET in == FuzzyInputs(profile.kycAnswers, profile.latest_statement)
    IN  <<in.dti, in.volatility, in.min_balance, in.debt_honesty,
          in.character>>

\* The inputs the simulation can hold when the calls are for the profiles
\* above: each input as assigned by one of them.
MixedInputs ==
    {[name \in Range(InputNames) |->
         ArgsOf(EngineProfiles[pick[name]])[
             CHOOSE k \in DOMAIN InputNames : InputNames[k] = name]] :
        pick \in [Range(InputNames) -> DOMAIN EngineProfiles]}

\* The outcome of compute() for the inputs above, evaluated once.
RiskChoices ==
    [input \in MixedInputs |->
        assess_risk(input.DTI, input.Volatility, input.MinBalance,
                    input.DebtHonesty, input.Character)]

\* What compute() makes of the inputs the simulation holds.
RiskOf(input) ==
    IF input \in MixedInputs THEN RiskChoices[input]
    ELSE assess_risk(input.DTI, input.Volatility, input.MinBalance,
                     input.DebtHonesty, input.Character)

\* The score as a percentage, cut to a whole number.
Percent(risk) == (100 * risk.num) \div risk.den

\* compute() keeping the aggregate of the run before: the output is the
\* higher of the old score and the new one.
evaluator_compute_accumulating(sim) ==
    LET risk == RiskOf(sim.input)
    IN  IF ~ risk.ok THEN [raised |-> TRUE, sim |-> sim]
        ELSE [raised |-> FALSE,
              sim |-> [sim EXCEPT !.output =
                          IF sim.output.ok
                             /\ Percent(sim.output) > Percent(risk)
                          THEN sim.output ELSE risk]]

\* Line 79, evaluator.compute(): the output is computed from the inputs the
\* simulation holds now; when no rule fires it raises and the output stays.
evaluator_compute(sim) ==
    LET risk == RiskOf(sim.input)
    IN  IF ~ risk.ok THEN [raised |-> TRUE, sim |-> sim]
        ELSE [raised |-> FALSE, sim |-> [sim EXCEPT !.output = risk]]

IdleRun == [pc |-> "idle", user_id |-> "", args |-> <<>>, k |-> 0,
            risk |-> NoOutput]

EvaluatorStart(callers) ==
    /\ evaluator = NewSimulation
    /\ runs = [c \in 1..callers |-> IdleRun]
    /\ written = <<>>
    /\ inp = Unused /\ momo = Unused /\ ups = Unused
    /\ lim = Unused /\ fz = Unused /\ flt = Unused /\ bank = Unused
    /\ ServiceUnused

\* One caller: the handler's loop, one record after the other.
EvaluatorInit == EvaluatorStart(1)

\* Two callers in one process, sharing the module's evaluator.
EvaluatorConcurrentInit == EvaluatorStart(2)

\* The puts made and the calls under way: what bounds a behaviour.
CallsStarted ==
    Len(written)
    + Cardinality({c \in DOMAIN runs : runs[c].pc # "idle"})

\* calculate_initial_limit(profile) up to the call of assess_risk.
Call(c) ==
    /\ runs[c].pc = "idle"
    /\ CallsStarted < MaxCalls
    /\ \E user_id \in DOMAIN EngineProfiles :
          runs' = [runs EXCEPT ![c] =
                      [pc |-> "input", user_id |-> user_id,
                       args |-> ArgsOf(EngineProfiles[user_id]), k |-> 1,
                       risk |-> NoOutput]]
    /\ UNCHANGED <<lim, fz, flt, bank, service, inp, momo, ups, evaluator,
                   written>>

\* Lines 74-78, one assignment: evaluator.input[name] = argument.
SetInput(c) ==
    /\ runs[c].pc = "input"
    /\ evaluator' = [evaluator EXCEPT
                        !.input[InputNames[runs[c].k]] = runs[c].args[runs[c].k]]
    /\ runs' = [runs EXCEPT
                   ![c].k = @ + 1,
                   ![c].pc = IF runs[c].k = Len(InputNames)
                             THEN "compute" ELSE "input"]
    /\ UNCHANGED <<lim, fz, flt, bank, service, inp, momo, ups, written>>

\* Line 79.
Compute(c) ==
    /\ runs[c].pc = "compute"
    /\ LET done == evaluator_compute(evaluator)
       IN  /\ evaluator' = done.sim
           /\ runs' = [runs EXCEPT
                          ![c].pc = IF done.raised THEN "raised" ELSE "read"]
    /\ UNCHANGED <<lim, fz, flt, bank, service, inp, momo, ups, written>>

\* Line 80: return evaluator.output['RiskScore'].
ReadOutput(c) ==
    /\ runs[c].pc = "read"
    /\ runs' = [runs EXCEPT ![c].pc = "limit", ![c].risk = evaluator.output]
    /\ UNCHANGED <<lim, fz, flt, bank, service, inp, momo, ups, evaluator,
                   written>>

\* Lines 166-192: the limit from the returned score, and the put.  The time
\* of the put is counted in puts.
PutItem(c) ==
    /\ runs[c].pc = "limit"
    /\ LET disposable_income ==
               EngineProfiles[runs[c].user_id].latest_statement.disposableIncome
           final_limit ==
               FinalLimit(InitialLimit(disposable_income, CONFIDENCE_SCORE,
                                       UserRiskScore(runs[c].risk)))
       IN  written' = Append(written,
                             [userId |-> runs[c].user_id,
                              creditLimit |-> final_limit,
                              scoreLastCalculatedAt |-> Len(written) + 1,
                              modelVersion |-> MODEL_VERSION])
    /\ runs' = [runs EXCEPT ![c] = IdleRun]
    /\ UNCHANGED <<lim, fz, flt, bank, service, inp, momo, ups, evaluator>>

\* The error of compute() leaves calculate_initial_limit; the handler's
\* except clause (lines 226-229) takes it.
Fail(c) ==
    /\ runs[c].pc = "raised"
    /\ runs' = [runs EXCEPT ![c] = IdleRun]
    /\ UNCHANGED <<lim, fz, flt, bank, service, inp, momo, ups, evaluator,
                   written>>

EvaluatorNext ==
    \/ \E c \in DOMAIN runs : Call(c)
    \/ \E c \in DOMAIN runs : SetInput(c)
    \/ \E c \in DOMAIN runs : Compute(c)
    \/ \E c \in DOMAIN runs : ReadOutput(c)
    \/ \E c \in DOMAIN runs : PutItem(c)
    \/ \E c \in DOMAIN runs : Fail(c)

SpecEvaluator == EvaluatorInit /\ [][EvaluatorNext]_vars

SpecEvaluatorConcurrent == EvaluatorConcurrentInit /\ [][EvaluatorNext]_vars

\* C12: idempotence of the limit calculator.  The records written by two
\* runs on the same unchanged profile, whatever runs on the shared evaluator
\* lie between them, agree in userId, creditLimit and modelVersion.
C12_Idempotent ==
    \A i, j \in DOMAIN written :
        written[i].userId = written[j].userId =>
            /\ written[i].creditLimit = written[j].creditLimit
            /\ written[i].modelVersion = written[j].modelVersion

\* A profile was scored, then another profile with another limit, then the
\* first again: the first and the third record differ in the time only.
C12_Witness ==
    /\ Len(written) = 3
    /\ written[1].userId = written[3].userId
    /\ written[2].userId # written[1].userId
    /\ written[2].creditLimit # written[1].creditLimit
    /\ written[1].scoreLastCalculatedAt # written[3].scoreLastCalculatedAt

\* C19 as claimed: inference isolation.  In every interleaving of two
\* calls, what assess_risk returns to a caller, a score or the error of
\* compute(), is determined by the five arguments of that call.
C19_Isolated ==
    \A c \in DOMAIN runs :
        LET own == [name \in Range(InputNames) |->
                       runs[c].args[CHOOSE k \in DOMAIN InputNames :
                                       InputNames[k] = name]]
        IN  /\ runs[c].pc = "limit" => runs[c].risk = RiskOf(own)
            /\ runs[c].pc = "raised" => ~ RiskOf(own).ok

\* Two calls for different users are inside assess_risk at once, one about
\* to compute and the other assigning its inputs.
C19_Witness ==
    /\ DOMAIN runs = {1, 2}
    /\ runs[1].pc = "compute" /\ runs[2].pc = "input" /\ runs[2].k > 1
    /\ runs[1].user_id # runs[2].user_id

(***************************************************************************)
(* Specification SpecAnalyzers: both analyzers on short ledgers whose rows *)
(* lie around the start of the 180-day window, in any order.               *)
(***************************************************************************)
\* Most data rows of such a ledger.
MaxWindowRows == 3

\* 18, 19 and 21 March and 15 September 2025: 19 March is 180 days before
\* 15 September.
WindowDates == {DayOf(3, 18), DayOf(3, 19), DayOf(3, 21), DayOf(9, 15)}

\* Bank rows: a debit, a credit, a row with both and a row with neither.
BankWindowRows ==
    {[date |-> date, debit |-> kind[1], credit |-> kind[2],
      balance |-> 300 + kind[2] - kind[1]] :
        date \in WindowDates,
        kind \in {<<3, 0>>, <<0, 40>>, <<3, 40>>, <<0, 0>>}}

\* Mobile-money rows: a payment out of the user's wallet and a receipt into
\* it.
MomoWindowRows ==
    {MomoRow(kind, date) :
        date \in WindowDates,
        kind \in {k \in MomoRowKinds :
                     /\ k.amount = 1000
                     /\ k.trans_type \in {"DEBIT", "TRANSFER"}}}

AnalyzersInit ==
    /\ \/ /\ \E rows \in UNION {[1..n -> BankWindowRows] :
                                   n \in 1..MaxWindowRows} :
                bank = BankStart("found", rows)
          /\ momo = Unused
       \/ /\ \E rows \in UNION {[1..n -> MomoWindowRows] :
                                   n \in 1..MaxWindowRows} :
                momo = MomoStart("found", rows)
          /\ bank = Unused
    /\ inp = Unused /\ ups = Unused
    /\ evaluator = Unused /\ runs = Unused /\ written = Unused
    /\ lim = Unused /\ fz = Unused /\ flt = Unused
    /\ ServiceUnused

AnalyzersNext ==
    \/ BankParse \/ BankAggregate \/ BankSummarize
    \/ MomoPrescan \/ MomoAggregate \/ MomoSummarize

SpecAnalyzers == AnalyzersInit /\ [][AnalyzersNext]_vars

\* The rows of a ledger with a parseable date whose date lies in the closed
\* interval [latest date - 180 days, latest date].
RowsInWindow(rows) ==
    LET dated == SelectSeq(rows, LAMBDA row : row.date # 0)
        latest == MaxOf([i \in DOMAIN dated |-> dated[i].date])
    IN  SelectSeq(dated, LAMBDA row :
                     latest - 180 <= row.date /\ row.date <= latest)

\* The calendar months touched by the rows in the window.
MonthsInWindow(rows) ==
    {month_key(RowsInWindow(rows)[i].date) : i \in DOMAIN RowsInWindow(rows)}

\* What a bank row and a mobile-money row add to the sums of their month.
BankAmount(row) ==
    IF row.credit > 0 THEN row.credit
    ELSE IF row.debit > 0 THEN row.debit ELSE 0

MomoAmount(row) == row.amount

\* The value a dict holds for a key, 0 when it has none.
DictGet(d, k) == IF DictHas(d, k) THEN d[DictIndex(d, k)].v ELSE 0

\* The window of a finished analysis a, Amount giving what a row adds.
WindowOf(a, Amount(_)) ==
    LET inside == RowsInWindow(a.rows)
        dated == SelectSeq(a.rows, LAMBDA row : row.date # 0)
    IN  /\ a.latest_date = MaxOf([i \in DOMAIN dated |-> dated[i].date])
        /\ DictKeys(a.monthly_lowest_balance) = MonthsInWindow(a.rows)
        /\ DictKeys(a.monthly_income) \subseteq MonthsInWindow(a.rows)
        /\ DictKeys(a.monthly_expenditure) \subseteq MonthsInWindow(a.rows)
        /\ SumSeq(DictValues(a.monthly_income))
             + SumSeq(DictValues(a.monthly_expenditure))
           = SumSeq([i \in DOMAIN inside |-> Amount(inside[i])])
        /\ \A k \in MonthsInWindow(a.rows) :
              LET balances == {inside[i].balance :
                                  i \in {j \in DOMAIN inside :
                                            month_key(inside[j].date) = k}}
              IN  /\ DictGet(a.monthly_lowest_balance, k) \in balances
                  /\ \A b \in balances :
                        DictGet(a.monthly_lowest_balance, k) <= b

\* C21: the analysis window.  With latest_date the greatest parsed date, the
\* rows that reach the monthly income, expenditure and lowest-balance
\* buckets are exactly those dated in [latest_date - 180 days, latest_date]:
\* the months materialized are the months of those rows, the sums are the
\* sums over those rows, and the lowest balances are taken over those rows,
\* whatever the order of the rows.
C21_Window ==
    /\ bank.pc = "done" => WindowOf(bank, BankAmount)
    /\ momo.pc = "done" => WindowOf(momo, MomoAmount)

\* A bank ledger whose first row is the latest, followed by a row one day
\* before the window and a row on its first day, was analysed.
C21_Witness ==
    /\ bank.pc = "done"
    /\ Len(bank.rows) = 3
    /\ bank.rows[1].date = DayOf(9, 15)
    /\ bank.rows[2].date = DayOf(3, 18) /\ bank.rows[2].debit > 0
    /\ bank.rows[3].date = DayOf(3, 19) /\ bank.rows[3].debit > 0
    /\ SumSeq(DictValues(bank.monthly_expenditure)) = bank.rows[3].debit

\* The income, expenditure and lowest-balance series of a finished analysis
\* each have one entry per month touched by a row in the window.
OneEntryPerMonth(a) ==
    /\ DictKeys(a.monthly_income) = MonthsInWindow(a.rows)
    /\ DictKeys(a.monthly_expenditure) = MonthsInWindow(a.rows)
    /\ DictKeys(a.monthly_lowest_balance) = MonthsInWindow(a.rows)
    /\ Len(a.monthly_income) = Cardinality(MonthsInWindow(a.rows))
    /\ Len(a.monthly_expenditure) = Cardinality(MonthsInWindow(a.rows))
    /\ Len(a.monthly_lowest_balance) = Cardinality(MonthsInWindow(a.rows))

\* C22 as claimed: every calendar month touched by a transaction in the
\* window has one bucket with an income sum, an expenditure sum and a lowest
\* balance, so each of the three series that are filtered and averaged has
\* exactly one entry per touched month, 0 for a month without income or
\* without expenditure.
C22_AsClaimed ==
    /\ bank.pc = "done" => OneEntryPerMonth(bank)
    /\ momo.pc = "done" => OneEntryPerMonth(momo)

\* What the code keeps: three separate dicts.  Every touched month has a
\* lowest balance; a month is in the income series only if a row added
\* income to it, and likewise for expenditure.
SeparateSeries(a, Amount(_), IsIncome(_)) ==
    LET inside == RowsInWindow(a.rows)
    IN  /\ Len(a.monthly_lowest_balance) = Cardinality(MonthsInWindow(a.rows))
        /\ DictKeys(a.monthly_lowest_balance) = MonthsInWindow(a.rows)
        /\ Len(a.monthly_income) = Cardinality(DictKeys(a.monthly_income))
        /\ Len(a.monthly_expenditure)
             = Cardinality(DictKeys(a.monthly_expenditure))
        /\ DictKeys(a.monthly_income) =
               {month_key(inside[i].date) :
                   i \in {j \in DOMAIN inside : IsIncome(inside[j])}}
        /\ DictKeys(a.monthly_expenditure) =
               {month_key(inside[i].date) :
                   i \in {j \in DOMAIN inside :
                             ~ IsIncome(inside[j]) /\ Amount(inside[j]) > 0}}

BankIsIncome(row) == row.credit > 0

MomoIsIncome(row) == is_income(row.to_no, momo.user_phone_suffix)

SeriesAsCoded ==
    /\ bank.pc = "done" => SeparateSeries(bank, BankAmount, BankIsIncome)
    /\ momo.pc = "done" => SeparateSeries(momo, MomoAmount, MomoIsIncome)

\* A bank ledger with a credit in March and a debit in September, both in
\* the window, was analysed.
C22_Witness ==
    /\ bank.pc = "done"
    /\ Len(bank.rows) = 2
    /\ bank.rows[1].date = DayOf(3, 21) /\ bank.rows[1].credit > 0
    /\ bank.rows[2].date = DayOf(9, 15)
    /\ bank.rows[2].credit = 0 /\ bank.rows[2].debit > 0
    /\ MonthsInWindow(bank.rows) = {3, 9}

\* C23: bank classification.  A bank transaction in the window adds its
\* credit to its month's income when credit > 0 (its debit is then
\* ignored), otherwise its debit to its month's expenditure when debit > 0,
\* otherwise nothing to either; in all three cases the month's lowest
\* balance becomes the lower of what it was and the transaction's balance,
\* and no other month changes.
C23_Classification ==
    [][(/\ bank.pc = "aggregate"
        /\ bank.idx <= Len(bank.all_transactions)
        /\ bank.all_transactions[bank.idx].date
             >= bank.latest_date - 180)
       => LET trans == bank.all_transactions[bank.idx]
              key == month_key(trans.date)
          IN  /\ DictGet(bank'.monthly_income, key)
                   = DictGet(bank.monthly_income, key)
                     + (IF trans.credit > 0 THEN trans.credit ELSE 0)
              /\ DictGet(bank'.monthly_expenditure, key)
                   = DictGet(bank.monthly_expenditure, key)
                     + (IF trans.credit > 0 THEN 0
                        ELSE IF trans.debit > 0 THEN trans.debit ELSE 0)
              /\ DictGet(bank'.monthly_lowest_balance, key)
                   = IF DictHas(bank.monthly_lowest_balance, key)
                     THEN Min(DictGet(bank.monthly_lowest_balance, key),
                              trans.balance)
                     ELSE trans.balance
              /\ DictHas(bank'.monthly_lowest_balance, key)
              /\ \A k \in 1..12 \ {key} :
                    /\ DictGet(bank'.monthly_income, k)
                         = DictGet(bank.monthly_income, k)
                    /\ DictGet(bank'.monthly_expenditure, k)
                         = DictGet(bank.monthly_expenditure, k)
                    /\ DictHas(bank'.monthly_lowest_balance, k)
                         = DictHas(bank.monthly_lowest_balance, k)
                    /\ DictGet(bank'.monthly_lowest_balance, k)
                         = DictGet(bank.monthly_lowest_balance, k)]_vars

\* A row with a credit and a debit was counted as income only, after a row
\* of the same month with a lower balance.
C23_Witness ==
    /\ bank.pc = "done"
    /\ Len(bank.rows) = 2
    /\ bank.rows[1].date = bank.rows[2].date
    /\ bank.rows[1].credit = 0 /\ bank.rows[1].debit > 0
    /\ bank.rows[2].credit > 0 /\ bank.rows[2].debit > 0
    /\ DictValues(bank.monthly_income) = <<bank.rows[2].credit>>
    /\ DictValues(bank.monthly_expenditure) = <<bank.rows[1].debit>>
    /\ DictValues(bank.monthly_lowest_balance) = <<bank.rows[1].balance>>

(***************************************************************************)
(* Specification SpecLatest: a profile's perStatement list, a statement    *)
(* analysed or re-analysed into it (lines 346-379 of metric_analyzer), and *)
(* calculate_initial_limit on the profile before or after.                 *)
(***************************************************************************)
\* The ids of the records of a list, in list order.
ListIds == <<"a.csv", "b.csv", "c.csv">>

\* The permutations of 1..n: the analysis dates of a list of n records, in
\* any order.
DateOrders(n) ==
    {q \in [1..n -> 1..n] : \A i, j \in 1..n : q[i] = q[j] => i = j}

\* The lists a profile may hold: up to three records of different ids and
\* different analysis dates.
DatedListChoices ==
    UNION {{[i \in 1..n |->
                [id |-> ListIds[i], analysisDate |-> dates[i],
                 metrics |-> metrics[i]]] :
            dates \in DateOrders(n), metrics \in [1..n -> MetricChoices]} :
           n \in 0..Len(ListIds)}

LatestInit ==
    /\ \E per_statement_list \in DatedListChoices,
          file_name \in StatementIds, metrics_data \in MetricChoices,
          kyc_answers \in KycChoices :
          ups = [pc |-> "start", per_statement_list |-> per_statement_list,
                 new_metric_item |->
                     [id |-> file_name,
                      analysisDate |-> Len(per_statement_list) + 1,
                      metrics |-> metrics_data],
                 updated |-> <<>>,
                 kycAnswers |-> kyc_answers,
                 profile_list |-> <<>>,
                 result |-> [status |-> "", creditLimit |-> 0]]
    /\ inp = Unused /\ momo = Unused
    /\ evaluator = Unused /\ runs = Unused /\ written = Unused
    /\ lim = Unused /\ fz = Unused /\ flt = Unused /\ bank = Unused
    /\ ServiceUnused

\* calculate_initial_limit on the profile as it is: with the list before
\* the analysis, or with the list the analysis has saved.
CalculateLimit ==
    /\ ups.pc \in {"start", "done"}
    /\ LET per_statement_list ==
               IF ups.pc = "start" THEN ups.per_statement_list
               ELSE ups.updated
       IN  ups' = [ups EXCEPT
                      !.pc = IF ups.pc = "start" THEN "calculated_before"
                             ELSE "calculated_after",
                      !.profile_list = per_statement_list,
                      !.result =
                          calculate_initial_limit(
                              [userId |-> "u1",
                               kycAnswers |-> ups.kycAnswers,
                               perStatement |-> per_statement_list])]
    /\ UNCHANGED <<lim, fz, flt, bank, service, inp, momo, evaluator, runs,
                   written>>

LatestNext == Upsert \/ CalculateLimit

SpecLatest == LatestInit /\ [][LatestNext]_vars

\* C24: for a profile with one or more statement records the limit
\* calculation takes its statement metrics from the one record with the
\* greatest analysisDate, so after a statement was analysed or re-analysed
\* (its record getting a new analysisDate) the calculation is the one for
\* that statement's metrics, wherever its record is in the list.
C24_MostRecentStatement ==
    /\ (ups.pc \in {"calculated_before", "calculated_after"}
        /\ ups.profile_list # <<>>)
       => \E i \in DOMAIN ups.profile_list :
             /\ \A j \in DOMAIN ups.profile_list :
                   j # i => ups.profile_list[j].analysisDate
                              < ups.profile_list[i].analysisDate
             /\ ups.result = ScoredLatest(ups.kycAnswers,
                                          ups.profile_list[i].metrics)
    /\ ups.pc = "calculated_after"
       => ups.result = ScoredLatest(ups.kycAnswers,
                                    ups.new_metric_item.metrics)

\* The first of three records was re-analysed, the other two have metrics
\* for which the calculation raises, and the limit was calculated from the
\* first.
C24_Witness ==
    /\ ups.pc = "calculated_after"
    /\ Len(ups.profile_list) = 3
    /\ ups.profile_list[1] = ups.new_metric_item
    /\ ups.per_statement_list[1].metrics # ups.new_metric_item.metrics
    /\ ups.profile_list[2].metrics # ups.new_metric_item.metrics
    /\ ups.profile_list[3].metrics # ups.new_metric_item.metrics
    /\ ups.result.status = "success"

====
